---- MODULE Spec2Model ----
(***************************************************************************)
(* Bowls Performance Tracker: the record store (IndexedDB object stores    *)
(* 'games' and 'bowls'), the analytics cache and getPlayerStats, and the   *)
(* live-recording operations that write the store.                         *)
(*                                                                         *)
(* Numbers.  JavaScript doubles are modelled exactly:                      *)
(*   - distances in feet are integers in hundredths of a foot;             *)
(*   - values rounded by Math.round(x * 100) / 100 are integers in         *)
(*     hundredths;                                                         *)
(*   - unrounded quotients are fractions [num, den] in lowest terms.       *)
(* Object stores are sequences in key order (getAll returns records by     *)
(* ascending key).                                                         *)
(***************************************************************************)
EXTENDS Integers, Sequences, FiniteSets, TLC

VARIABLES
  bowls,          \* object store 'bowls', in key order
  games,          \* object store 'games', in key order
  analyticsCache, \* let analyticsCache = {}: cacheKey -> stats
  statsCall,      \* the getPlayerStats call in flight (position and locals)
  returned,       \* the value delivered by the step just taken, if any
  gameState,      \* let gameState: the game being recorded, with its bowls
  pendingBowl,    \* let pendingBowl: the off-rink bowl awaiting confirmation
  draggingBowl,   \* let draggingBowl: index in gameState.bowls of the bowl dragged
  persists,       \* the persistCurrentGame calls in flight, oldest first
  tournaments,    \* object store 'tournaments', in key order
  settings,       \* object store 'settings': the names whose value is true
  onboardingActive, \* the onboarding overlay is shown
  nextId,         \* number of ids generated so far
  ops,            \* number of user operations so far
  cacheStorage,   \* the service worker's caches: the URLs each holds a response for
  swEvent,        \* the event the service worker is handling, and how far
  localStorage,   \* window.localStorage: the games an earlier version left there
  migration       \* the migrateFromLocalStorage call in flight

vars == <<bowls, games, analyticsCache, statsCall, returned, gameState,
          pendingBowl, draggingBowl, persists, tournaments, settings,
          onboardingActive, nextId, ops, cacheStorage, swEvent, localStorage,
          migration>>

\* the service worker's variables
worker == <<cacheStorage, swEvent>>

\* the variables of the migration from localStorage
legacy == <<localStorage, migration>>

\* no cache has been opened, no event is being handled
NoCaches == [static |-> {}, dynamic |-> {}]

NoEvent == [pc |-> "none"]

\* no migrateFromLocalStorage call is in flight
NoMigration == [pc |-> "idle"]

\* the page runs without a service worker and with an empty localStorage
Standalone ==
  /\ cacheStorage = NoCaches
  /\ swEvent = NoEvent
  /\ localStorage = <<>>
  /\ migration = NoMigration

\* the variables getPlayerStats neither reads nor writes
recording == <<gameState, pendingBowl, draggingBowl, persists, tournaments,
               settings, onboardingActive, nextId, worker, legacy>>

(***************************************************************************)
(* JavaScript values                                                       *)
(***************************************************************************)

\* undefined, null and NaN in a numeric field
Undefined == -1
Null == -2
NaN == -3

\* undefined in a string field
UndefinedStr == "undefined"

\* no game filter: getPlayerStats(playerName) or a falsy filterGameId
NoFilter == ""

\* x is truthy, for a numeric field: not undefined, null, NaN or 0
Truthy(x) == x # Undefined /\ x # Null /\ x # NaN /\ x # 0

\* s is truthy, for a string field
TruthyStr(s) == s # UndefinedStr /\ s # ""

RECURSIVE GCD(_, _)
GCD(a, b) == IF b = 0 THEN a ELSE GCD(b, a % b)

\* the double n / d (d > 0, n >= 0) as a fraction in lowest terms
Quot(n, d) == LET g == GCD(n, d) IN [num |-> n \div g, den |-> d \div g]

Zero == [num |-> 0, den |-> 1]

\* Math.round(n / d * 100), for n >= 0 and d > 0: hundredths, halves rounded up
Round2(n, d) == (200 * n + d) \div (2 * d)

\* Math.round(Math.sqrt(n / d) * 100), for n >= 0 and d > 0
RoundSqrt2(n, d) ==
  CHOOSE r \in 0..1000 :
    /\ (r = 0 \/ (2 * r - 1) * (2 * r - 1) * d <= 40000 * n)
    /\ (2 * r + 1) * (2 * r + 1) * d > 40000 * n

\* [...new Set(s)]: the distinct elements of s in order of first occurrence
Uniq(s) ==
  LET first == {i \in 1..Len(s) : \A j \in 1..(i - 1) : s[j] # s[i]}
      RECURSIVE Pick(_)
      Pick(i) == IF i > Len(s) THEN <<>>
                 ELSE IF i \in first THEN <<s[i]>> \o Pick(i + 1)
                 ELSE Pick(i + 1)
  IN Pick(1)

(***************************************************************************)
(* getPlayerStats: the aggregation                                         *)
(***************************************************************************)

\* 'player_' + playerName + (filterGameId ? '_game_' + filterGameId : '')
CacheKey(playerName, filterGameId) ==
  "player_" \o playerName \o
    (IF filterGameId # NoFilter THEN "_game_" \o filterGameId ELSE "")

\* b.scoreValue || b.score || 0
ScoreOf(b) ==
  IF Truthy(b.scoreValue) THEN b.scoreValue
  ELSE IF Truthy(b.score) THEN b.score ELSE 0

\* b.scoreValue !== undefined ? b.scoreValue : (b.score || 0)
BucketScore(b) ==
  IF b.scoreValue # Undefined THEN b.scoreValue
  ELSE IF Truthy(b.score) THEN b.score ELSE 0

\* b.distance || b.distanceInFeet || 0
DistOf(b) ==
  IF Truthy(b.distance) THEN b.distance
  ELSE IF Truthy(b.distanceInFeet) THEN b.distanceInFeet ELSE 0

\* reduce((sum, b) => sum + (b.scoreValue || b.score || 0), 0)
RECURSIVE SumScores(_)
SumScores(s) == IF s = <<>> THEN 0 ELSE ScoreOf(Head(s)) + SumScores(Tail(s))

\* allGames.find(g => g.id === gid): <<game>> or <<>> when there is none
FindGame(allGames, gid) ==
  LET hits == SelectSeq(allGames, LAMBDA g : g.id = gid)
  IN IF hits = <<>> THEN <<>> ELSE <<Head(hits)>>

\* PlayerBowls without the test of the team side
PlayerBowlsAnyTeam(playerName, filterGameId, allBowls) ==
  LET filtered == IF filterGameId # NoFilter
                  THEN SelectSeq(allBowls, LAMBDA b : b.gameId = filterGameId)
                  ELSE allBowls
  IN SelectSeq(filtered, LAMBDA b : b.playerId = playerName)

\* playerBowls: own attempts of the participant, after the optional game filter
PlayerBowls(playerName, filterGameId, allBowls) ==
  LET filtered == IF filterGameId # NoFilter
                  THEN SelectSeq(allBowls, LAMBDA b : b.gameId = filterGameId)
                  ELSE allBowls
  IN SelectSeq(filtered, LAMBDA b : b.playerId = playerName /\ b.team = "yours")

\* ScoredBowls keeping the bowls without a score
ScoredBowlsAll(playerBowls) == playerBowls

\* scoredBowls = playerBowls.filter(b => b.score !== undefined && b.score !== null)
ScoredBowls(playerBowls) ==
  SelectSeq(playerBowls, LAMBDA b : b.score # Undefined /\ b.score # Null)

\* avgScore before rounding: <<sum, count>>
AvgScore(scoredBowls) == <<SumScores(scoredBowls), Len(scoredBowls)>>

\* ScoreDistribution starting from an empty object instead of five zeros
RECURSIVE ScoreDistributionNoFill(_)
ScoreDistributionNoFill(scoredBowls) ==
  IF scoredBowls = <<>> THEN <<>>
  ELSE LET d == ScoreDistributionNoFill(SubSeq(scoredBowls, 1, Len(scoredBowls) - 1))
           s == BucketScore(scoredBowls[Len(scoredBowls)])
       IN [k \in DOMAIN d \cup {s} |->
             IF k = s THEN (IF s \in DOMAIN d THEN d[s] ELSE 0) + 1 ELSE d[k]]

\* scoreDistribution: { 0: 0, 1: 0, 2: 0, 3: 0, 4: 0 }, then one count per scored bowl
RECURSIVE ScoreDistribution(_)
ScoreDistribution(scoredBowls) ==
  IF scoredBowls = <<>> THEN [s \in 0..4 |-> 0]
  ELSE LET d == ScoreDistribution(SubSeq(scoredBowls, 1, Len(scoredBowls) - 1))
           s == BucketScore(scoredBowls[Len(scoredBowls)])
       IN [k \in DOMAIN d \cup {s} |->
             IF k = s THEN (IF s \in DOMAIN d THEN d[s] ELSE 0) + 1 ELSE d[k]]

\* ZoneOf comparing the distance in feet, unconverted, against 20 and 50
ZoneOfFeet(b) ==
  LET dist == DistOf(b)
  IN IF dist < 2000 THEN "Close (<20cm)"
     ELSE IF dist < 5000 THEN "Medium (20-50cm)"
     ELSE "Far (>50cm)"

\* the zone of a bowl: distCm = dist * 30 against 20 and 50 (dist in hundredths)
ZoneOf(b) ==
  LET distCm == DistOf(b) * 30
  IN IF distCm < 2000 THEN "Close (<20cm)"
     ELSE IF distCm < 5000 THEN "Medium (20-50cm)"
     ELSE "Far (>50cm)"

Zones == {"Close (<20cm)", "Medium (20-50cm)", "Far (>50cm)"}

\* distanceZones[zone] = { total, good } after the pass over playerBowls
RECURSIVE DistanceZones(_)
DistanceZones(playerBowls) ==
  IF playerBowls = <<>> THEN [z \in Zones |-> [total |-> 0, good |-> 0]]
  ELSE LET d == DistanceZones(SubSeq(playerBowls, 1, Len(playerBowls) - 1))
           b == playerBowls[Len(playerBowls)]
           z == ZoneOf(b)
       IN [d EXCEPT ![z] = [total |-> @.total + 1,
                            good |-> IF BucketScore(b) >= 3 THEN @.good + 1 ELSE @.good]]

\* distanceSuccessRates[zone] = total > 0 ? good / total * 100 : 0
DistanceSuccessRates(playerBowls) ==
  LET d == DistanceZones(playerBowls)
  IN [z \in Zones |-> IF d[z].total > 0 THEN Quot(d[z].good * 100, d[z].total) ELSE Zero]

\* BucketOf with inclusive upper thresholds
BucketOfInclusive(b) ==
  LET dist == DistOf(b)
  IN IF dist <= 67 THEN "short" ELSE IF dist <= 167 THEN "medium" ELSE "long"

\* the bucket of a bowl by raw distance in feet against 0.67 and 1.67
BucketOf(b) ==
  LET dist == DistOf(b)
  IN IF dist < 67 THEN "short" ELSE IF dist < 167 THEN "medium" ELSE "long"

\* bowlDistribution = { short, medium, long }
RECURSIVE BowlDistribution(_)
BowlDistribution(playerBowls) ==
  IF playerBowls = <<>> THEN [short |-> 0, medium |-> 0, long |-> 0]
  ELSE LET d == BowlDistribution(Tail(playerBowls))
           k == BucketOf(Head(playerBowls))
       IN [d EXCEPT ![k] = @ + 1]

\* handDistribution = { forehand, backhand }, a missing hand counted as forehand
RECURSIVE HandDistribution(_)
HandDistribution(playerBowls) ==
  IF playerBowls = <<>> THEN [forehand |-> 0, backhand |-> 0]
  ELSE LET d == HandDistribution(Tail(playerBowls))
           hand == IF TruthyStr(Head(playerBowls).hand) THEN Head(playerBowls).hand
                   ELSE "forehand"
       IN IF hand = "backhand" THEN [d EXCEPT !.backhand = @ + 1]
          ELSE [d EXCEPT !.forehand = @ + 1]

\* directionBreakdown = { Short, 'Jack High', Past }; other tags are dropped
RECURSIVE DirectionBreakdown(_)
DirectionBreakdown(playerBowls) ==
  IF playerBowls = <<>> THEN [d \in {"Short", "Jack High", "Past"} |-> 0]
  ELSE LET d == DirectionBreakdown(Tail(playerBowls))
           b == Head(playerBowls)
           dir == IF TruthyStr(b.resultCategory) THEN b.resultCategory
                  ELSE IF TruthyStr(b.direction) THEN b.direction ELSE ""
       IN IF dir \in DOMAIN d THEN [d EXCEPT ![dir] = @ + 1] ELSE d

\* '' in a date field: the date of a gamePerformance entry whose game is absent
EmptyDate == -4

\* new Date(date) as a number: NaN for '' and for a missing date
DateMs(date) == IF date \in {EmptyDate, Undefined, NaN} THEN NaN ELSE date

\* (a, b) => new Date(a.date) - new Date(b.date); a NaN result compares as +0
CompareDate(a, b) ==
  IF DateMs(a.date) = NaN \/ DateMs(b.date) = NaN THEN 0
  ELSE DateMs(a.date) - DateMs(b.date)

\* Array.prototype.sort with CompareDate: stable insertion, left to right
RECURSIVE InsertByDate(_, _)
InsertByDate(sorted, e) ==
  IF sorted = <<>> THEN <<e>>
  ELSE IF CompareDate(sorted[Len(sorted)], e) > 0
       THEN Append(InsertByDate(SubSeq(sorted, 1, Len(sorted) - 1), e), sorted[Len(sorted)])
       ELSE Append(sorted, e)

RECURSIVE SortByDate(_)
SortByDate(s) ==
  IF s = <<>> THEN <<>>
  ELSE InsertByDate(SortByDate(SubSeq(s, 1, Len(s) - 1)), s[Len(s)])

\* one gamePerformance entry, for game id gid
GamePerformanceEntry(gid, playerBowls, allGames) ==
  LET gameBowls == SelectSeq(playerBowls, LAMBDA b : b.gameId = gid)
      game == FindGame(allGames, gid)
      gameScored == SelectSeq(gameBowls, LAMBDA b : b.score # Undefined)
      gameAvg == IF Len(gameScored) > 0
                 THEN Quot(SumScores(gameScored), Len(gameScored)) ELSE Zero
  IN [gameId |-> gid,
      date |-> IF game # <<>> THEN game[1].date ELSE EmptyDate,
      avgScore |-> gameAvg,
      bowlCount |-> Len(gameBowls),
      format |-> IF game # <<>> THEN game[1].format ELSE ""]

\* gamePerformance: one entry per id of gameIds, then sorted by date
GamePerformance(gameIds, playerBowls, allGames) ==
  SortByDate([i \in 1..Len(gameIds) |->
                GamePerformanceEntry(gameIds[i], playerBowls, allGames)])

\* endScores: the groups keyed by gameId + '_' + endNumber, in insertion order.
\* The key is the pair: the text after the last '_' is the end number, so two
\* different pairs never give the same string.
RECURSIVE EndScores(_)
EndScores(playerBowls) ==
  IF playerBowls = <<>> THEN <<>>
  ELSE LET acc == EndScores(SubSeq(playerBowls, 1, Len(playerBowls) - 1))
           b == playerBowls[Len(playerBowls)]
           key == <<b.gameId, b.endNumber>>
           at == {i \in 1..Len(acc) : acc[i].key = key}
       IN IF at = {}
          THEN Append(acc, [key |-> key, total |-> ScoreOf(b), count |-> 1,
                            end |-> b.endNumber, gameId |-> b.gameId])
          ELSE [i \in 1..Len(acc) |->
                  IF i \in at
                  THEN [acc[i] EXCEPT !.total = @ + ScoreOf(b), !.count = @ + 1]
                  ELSE acc[i]]

\* (a, b) => b.avg - a.avg, as a sign: avg = total / count with count > 0
CompareAvgDesc(a, b) == b.total * a.count - a.total * b.count

\* InsertByAvg moving an element in front of the elements it ties with
RECURSIVE InsertByAvgUnstable(_, _)
InsertByAvgUnstable(sorted, e) ==
  IF sorted = <<>> THEN <<e>>
  ELSE IF CompareAvgDesc(sorted[Len(sorted)], e) >= 0
       THEN Append(InsertByAvgUnstable(SubSeq(sorted, 1, Len(sorted) - 1), e),
                   sorted[Len(sorted)])
       ELSE Append(sorted, e)

\* Array.prototype.sort with CompareAvgDesc: stable insertion, left to right
RECURSIVE InsertByAvg(_, _)
InsertByAvg(sorted, e) ==
  IF sorted = <<>> THEN <<e>>
  ELSE IF CompareAvgDesc(sorted[Len(sorted)], e) > 0
       THEN Append(InsertByAvg(SubSeq(sorted, 1, Len(sorted) - 1), e), sorted[Len(sorted)])
       ELSE Append(sorted, e)

RECURSIVE SortByAvg(_)
SortByAvg(s) ==
  IF s = <<>> THEN <<>>
  ELSE InsertByAvg(SortByAvg(SubSeq(s, 1, Len(s) - 1)), s[Len(s)])

\* endAvgs: Object.values(endScores) with avg added, sorted by avg descending
EndAvgs(playerBowls) ==
  LET e == EndScores(playerBowls)
  IN SortByAvg([i \in 1..Len(e) |->
       [total |-> e[i].total, count |-> e[i].count, end |-> e[i].end,
        gameId |-> e[i].gameId,
        avg |-> IF e[i].count > 0 THEN Quot(e[i].total, e[i].count) ELSE Zero]])

\* bestEnd = endAvgs[0] || null: <<entry>> or <<>>
BestEnd(endAvgs) == IF endAvgs = <<>> THEN <<>> ELSE <<endAvgs[1]>>

\* worstEnd = endAvgs[endAvgs.length - 1] || null: <<entry>> or <<>>
WorstEnd(endAvgs) == IF endAvgs = <<>> THEN <<>> ELSE <<endAvgs[Len(endAvgs)]>>

\* sum of Math.pow(s - mean, 2) over the scores, times n * n: mean = sum / n
RECURSIVE SumSquares(_, _, _)
SumSquares(s, sum, n) ==
  IF s = <<>> THEN 0
  ELSE (n * ScoreOf(Head(s)) - sum) * (n * ScoreOf(Head(s)) - sum)
       + SumSquares(Tail(s), sum, n)

\* Consistency dividing by n - 1 (the sample deviation)
ConsistencySample(scoredBowls) ==
  LET n == Len(scoredBowls)
  IN IF n > 1
     THEN RoundSqrt2(SumSquares(scoredBowls, SumScores(scoredBowls), n), n * n * (n - 1))
     ELSE 0

\* Math.round(Math.sqrt(variance) * 100): variance over scoredBowls, or 0
Consistency(scoredBowls) ==
  LET n == Len(scoredBowls)
  IN IF n > 0
     THEN RoundSqrt2(SumSquares(scoredBowls, SumScores(scoredBowls), n), n * n * n)
     ELSE 0

\* game.endCount || game.totalEnds || 21
TotalEndsOf(game) ==
  IF Truthy(game.endCount) THEN game.endCount
  ELSE IF Truthy(game.totalEnds) THEN game.totalEnds ELSE 21

\* x > y for a field x and a number y: undefined and NaN convert to NaN, which
\* compares false; null converts to 0
GreaterThan(x, y) ==
  IF x \in {Undefined, NaN} THEN FALSE
  ELSE IF x = Null THEN 0 > y ELSE x > y

\* ClutchBowls taking 21 ends for every game
ClutchBowlsGlobal(playerBowls, allGames) ==
  SelectSeq(playerBowls, LAMBDA b :
    LET game == FindGame(allGames, b.gameId)
    IN IF game = <<>> THEN FALSE ELSE GreaterThan(b.endNumber, 21 - 3))

\* clutchBowls: the bowls of the final 3 ends of their own game
ClutchBowls(playerBowls, allGames) ==
  SelectSeq(playerBowls, LAMBDA b :
    LET game == FindGame(allGames, b.gameId)
    IN IF game = <<>> THEN FALSE
       ELSE GreaterThan(b.endNumber, TotalEndsOf(game[1]) - 3))

\* clutchAvg before rounding: <<sum, count>> over the scored clutch bowls
ClutchAvg(playerBowls, allGames) ==
  LET clutchScored == SelectSeq(ClutchBowls(playerBowls, allGames),
                                LAMBDA b : b.score # Undefined)
  IN <<SumScores(clutchScored), Len(clutchScored)>>

\* the stats object getPlayerStats builds from the two store reads; <<>> is null
ComputeStats(playerName, filterGameId, allBowls, allGames) ==
  LET playerBowls == PlayerBowls(playerName, filterGameId, allBowls)
      gameIds == Uniq([i \in 1..Len(playerBowls) |-> playerBowls[i].gameId])
      scoredBowls == ScoredBowls(playerBowls)
      avgScore == AvgScore(scoredBowls)
      endAvgs == EndAvgs(playerBowls)
      clutchAvg == ClutchAvg(playerBowls, allGames)
  IN IF Len(playerBowls) = 0 THEN <<>>
     ELSE <<[playerName |-> playerName,
             totalBowls |-> Len(playerBowls),
             gamesPlayed |-> Len(gameIds),
             positions |-> Uniq([i \in 1..Len(playerBowls) |-> playerBowls[i].position]),
             avgScore |-> IF avgScore[2] > 0 THEN Round2(avgScore[1], avgScore[2]) ELSE 0,
             scoreDistribution |-> ScoreDistribution(scoredBowls),
             distanceSuccessRates |-> DistanceSuccessRates(playerBowls),
             bowlDistribution |-> BowlDistribution(playerBowls),
             handDistribution |-> HandDistribution(playerBowls),
             gamePerformance |-> GamePerformance(gameIds, playerBowls, allGames),
             bestEnd |-> BestEnd(endAvgs),
             worstEnd |-> WorstEnd(endAvgs),
             consistency |-> Consistency(scoredBowls),
             clutchAvg |-> IF clutchAvg[2] > 0 THEN Round2(clutchAvg[1], clutchAvg[2]) ELSE 0,
             directionBreakdown |-> DirectionBreakdown(playerBowls)]>>

(***************************************************************************)
(* getPlayerStats: the call, its two store reads and its return            *)
(***************************************************************************)

\* user operations (handler calls, getPlayerStats calls) in a run at most
MaxOps == 6

\* one more user operation
Operation == ops < MaxOps /\ ops' = ops + 1

Idle == [pc |-> "idle"]

NoReturn == [op |-> "none"]

\* no operation that writes the store is in flight
Quiescent == persists = <<>>

\* const cacheKey = ...; if (analyticsCache[cacheKey]) return analyticsCache[cacheKey];
\* otherwise the call suspends at await getAllBowls()
GetPlayerStats(playerName, filterGameId) ==
  LET cacheKey == CacheKey(playerName, filterGameId)
  IN /\ statsCall.pc = "idle"
     /\ ~onboardingActive
     /\ Operation
     /\ \/ /\ cacheKey \in DOMAIN analyticsCache
           /\ returned' = [op |-> "getPlayerStats", playerName |-> playerName,
                           filterGameId |-> filterGameId,
                           value |-> <<analyticsCache[cacheKey]>>,
                           clean |-> Quiescent, cached |-> TRUE]
           /\ UNCHANGED statsCall
        \/ /\ cacheKey \notin DOMAIN analyticsCache
           /\ statsCall' = [pc |-> "getAllBowls", playerName |-> playerName,
                            filterGameId |-> filterGameId, cacheKey |-> cacheKey,
                            clean |-> Quiescent, allBowls |-> <<>>]
           /\ returned' = NoReturn
     /\ UNCHANGED <<bowls, games, analyticsCache, recording>>

\* let allBowls = await getAllBowls(): the read transaction on 'bowls' completes
GetAllBowlsDone ==
  /\ statsCall.pc = "getAllBowls"
  /\ statsCall' = [statsCall EXCEPT !.pc = "getAllGames", !.allBowls = bowls]
  /\ returned' = NoReturn
  /\ UNCHANGED <<bowls, games, analyticsCache, recording, ops>>

\* const allGames = await getAllGames(), then the rest of the function, which
\* runs without suspending: null for no bowls, else the cache write and return
GetAllGamesDone ==
  /\ statsCall.pc = "getAllGames"
  /\ LET stats == ComputeStats(statsCall.playerName, statsCall.filterGameId,
                               statsCall.allBowls, games)
     IN /\ analyticsCache' =
             IF stats = <<>> THEN analyticsCache
             ELSE [k \in DOMAIN analyticsCache \cup {statsCall.cacheKey} |->
                     IF k = statsCall.cacheKey THEN stats[1] ELSE analyticsCache[k]]
        /\ returned' = [op |-> "getPlayerStats", playerName |-> statsCall.playerName,
                        filterGameId |-> statsCall.filterGameId,
                        value |-> stats, clean |-> statsCall.clean,
                        cached |-> FALSE]
  /\ statsCall' = Idle
  /\ UNCHANGED <<bowls, games, recording, ops>>

(***************************************************************************)
(* Live recording: gameState, the canvas handlers and the game controls    *)
(***************************************************************************)

\* gameState.gameId before any game is started (0: falsy)
NoGameId == ""

\* let gameState = {...}: the state the script starts with
InitialGameState ==
  [gameId |-> NoGameId, format |-> "singles", yourPlayers |-> <<>>,
   currentEnd |-> 1, totalEnds |-> 21, currentTeam |-> "yours",
   currentPlayerIndex |-> 0, bowlsPerPlayer |-> 4, playersPerTeam |-> 1,
   bowls |-> <<>>, completed |-> FALSE, date |-> EmptyDate]

\* let pendingBowl = null; let draggingBowl = null
NoBowl == <<>>

NotDragging == 0

\* the pointer is free to press a button: it is not holding a bowl
PointerFree == draggingBowl = NotDragging

\* ids from generateId(), in the order they are generated: the id is the
\* clock in base 36 followed by random digits, so key order is creation order
IdNames == <<"g1", "g2", "g3", "g4", "g5", "g6", "g7", "g8", "g9", "g10", "g11", "g12",
            "g13", "g14", "g15", "g16">>

\* const formatMap = {...}[format]
FormatMap(format, numberOfEnds) ==
  CASE format = "singles" -> [bowls |-> 4, players |-> 1, ends |-> 21]
    [] format = "pairs4" -> [bowls |-> 4, players |-> 2, ends |-> numberOfEnds]
    [] format = "pairs3" -> [bowls |-> 3, players |-> 2, ends |-> numberOfEnds]
    [] format = "triples3" -> [bowls |-> 3, players |-> 3, ends |-> numberOfEnds]
    [] format = "triples2" -> [bowls |-> 2, players |-> 3, ends |-> numberOfEnds]
    [] format = "fours" -> [bowls |-> 2, players |-> 4, ends |-> numberOfEnds]

\* const positionsByFormat = {...}[gameState.format]
PositionsByFormat(format) ==
  CASE format = "singles" -> <<"Player">>
    [] format \in {"pairs4", "pairs3"} -> <<"Lead", "Skip">>
    [] format \in {"triples3", "triples2"} -> <<"Lead", "Second", "Skip">>
    [] OTHER -> <<"Lead", "Second", "Third", "Skip">>

\* getDistanceCategory(distanceInFeet), the distance in hundredths of a foot
GetDistanceCategory(distanceInFeet) ==
  IF distanceInFeet < 50 THEN "< 0.5 ft"
  ELSE IF distanceInFeet < 100 THEN "0.5 ft - 1 ft"
  ELSE IF distanceInFeet < 200 THEN "1 ft - 2 ft"
  ELSE IF distanceInFeet < 300 THEN "2 ft - 3 ft"
  ELSE "> 3 ft"

\* CalculateFrontEndScore over a table that gives 5 points within half a foot
CalculateFrontEndScoreOfFive(resultCategory, distanceCategory) ==
  IF resultCategory \in {"Short", "Jack High", "Past"}
  THEN CASE distanceCategory = "< 0.5 ft" -> 5
         [] distanceCategory = "0.5 ft - 1 ft" -> 4
         [] distanceCategory = "1 ft - 2 ft" -> 3
         [] distanceCategory = "2 ft - 3 ft" -> 2
         [] OTHER -> 1
  ELSE 0

\* scoringTable[resultCategory + '-' + distanceCategory] || 0, for the keys
\* the canvas handlers can form
CalculateFrontEndScore(resultCategory, distanceCategory) ==
  IF resultCategory \in {"Short", "Jack High"}
  THEN CASE distanceCategory = "< 0.5 ft" -> 4
         [] distanceCategory = "0.5 ft - 1 ft" -> 3
         [] distanceCategory = "1 ft - 2 ft" -> 2
         [] distanceCategory = "2 ft - 3 ft" -> 1
         [] OTHER -> 0
  ELSE IF resultCategory = "Past"
  THEN CASE distanceCategory = "< 0.5 ft" -> 4
         [] distanceCategory = "0.5 ft - 1 ft" -> 4
         [] distanceCategory = "1 ft - 2 ft" -> 3
         [] distanceCategory = "2 ft - 3 ft" -> 2
         [] OTHER -> 1
  ELSE 0

\* gameState.bowls.filter(b => b.end === gameState.currentEnd).length
BowlsThisEnd(gs) ==
  Len(SelectSeq(gs.bowls, LAMBDA b : b.end = gs.currentEnd))

\* bowls of the end by player index playerIndex of the own side
PlayerBowlsThisEnd(gs, playerIndex) ==
  Len(SelectSeq(gs.bowls, LAMBDA b : /\ b.end = gs.currentEnd
                                     /\ b.team = "yours"
                                     /\ b.playerIndex = playerIndex))

\* the while loop of advanceToNextPlayer: the first index after the current
\* one, cyclically, whose player has bowls left in this end
RECURSIVE NextPlayerIndex(_, _, _)
NextPlayerIndex(gs, nextPlayerIndex, attempts) ==
  IF attempts >= gs.playersPerTeam THEN gs.currentPlayerIndex
  ELSE IF PlayerBowlsThisEnd(gs, nextPlayerIndex) < gs.bowlsPerPlayer
       THEN nextPlayerIndex
       ELSE NextPlayerIndex(gs, (nextPlayerIndex + 1) % gs.playersPerTeam, attempts + 1)

AdvanceToNextPlayer(gs) ==
  IF PlayerBowlsThisEnd(gs, gs.currentPlayerIndex) >= gs.bowlsPerPlayer
  THEN [gs EXCEPT !.currentPlayerIndex =
          NextPlayerIndex(gs, (gs.currentPlayerIndex + 1) % gs.playersPerTeam, 0)]
  ELSE gs

\* the bowl object built by handleCanvasClick from the click's distance to the
\* jack and its side of the jack
NewBowl(gs, distanceInFeet, resultCategory) ==
  [team |-> gs.currentTeam, end |-> gs.currentEnd,
   player |-> IF gs.currentTeam = "yours"
              THEN gs.yourPlayers[gs.currentPlayerIndex + 1] ELSE "Opp",
   playerIndex |-> IF gs.currentTeam = "yours" THEN gs.currentPlayerIndex ELSE 0,
   resultCategory |-> resultCategory,
   distanceCategory |-> GetDistanceCategory(distanceInFeet),
   distanceInFeet |-> distanceInFeet,
   scoreCategory |-> "", scoreValue |-> 0]

\* the front-end scoring of handleCanvasClick and confirmOnRink
FrontEndScored(gs, bowl) ==
  LET currentPosition == PositionsByFormat(gs.format)[gs.currentPlayerIndex + 1]
  IN IF gs.currentTeam = "yours" /\ currentPosition \in {"Lead", "Second"}
     THEN [bowl EXCEPT !.scoreCategory = bowl.resultCategory,
                       !.scoreValue = CalculateFrontEndScore(bowl.resultCategory,
                                                             bowl.distanceCategory)]
     ELSE bowl

\* gameState.bowls.push(bowl); if (gameState.currentTeam === 'yours') advanceToNextPlayer()
PushBowl(gs, bowl) ==
  LET pushed == [gs EXCEPT !.bowls = Append(gs.bowls, bowl)]
  IN IF gs.currentTeam = "yours" THEN AdvanceToNextPlayer(pushed) ELSE pushed

(***************************************************************************)
(* Persistence: persistCurrentGame and the store operations                *)
(***************************************************************************)

\* store.put(record) on a store in key order: replaces the record with the
\* same id, else adds it under its new (largest) key
Put(store, record) ==
  IF \E i \in 1..Len(store) : store[i].id = record.id
  THEN [i \in 1..Len(store) |-> IF store[i].id = record.id THEN record ELSE store[i]]
  ELSE Append(store, record)

\* const gameToSave = { ...gameState, id: gameState.gameId || gameState.id }
GameToSave(gs) ==
  [id |-> gs.gameId, date |-> gs.date, endCount |-> gs.totalEnds,
   totalEnds |-> gs.totalEnds, format |-> gs.format, completed |-> gs.completed,
   tournamentId |-> UndefinedStr]

\* gameState.bowls.map(b => ({...b, id: b.id || generateId(), gameId, playerId,
\* endNumber, distance, direction, score})): the ids are set on the copies, so
\* every call stores the bowls under fresh keys
BowlsWithIds(gs) ==
  [i \in 1..Len(gs.bowls) |->
     LET b == gs.bowls[i]
     IN [gameId |-> gs.gameId,
         playerId |-> IF b.team = "yours" THEN b.player ELSE "opponent",
         team |-> b.team, position |-> UndefinedStr, endNumber |-> b.end,
         score |-> b.scoreValue, scoreValue |-> b.scoreValue,
         distance |-> b.distanceInFeet, distanceInFeet |-> b.distanceInFeet,
         hand |-> "forehand", direction |-> b.resultCategory,
         resultCategory |-> b.resultCategory]]

\* persistCurrentGame() up to its first await; caller is "confirmEndGame" for
\* the call that confirmEndGame awaits
PersistCurrentGame(gs, caller) ==
  Append(persists, [pc |-> "saveGame", gameToSave |-> GameToSave(gs),
                    caller |-> caller, bowlsWithIds |-> <<>>])

\* a store write falls into the getPlayerStats call in flight
Overlapped(call) ==
  IF call.pc = "idle" THEN call ELSE [call EXCEPT !.clean = FALSE]

\* function invalidateAnalyticsCache() { analyticsCache = {}; }
InvalidateAnalyticsCache == <<>>

\* persistCurrentGame call i returns; for the call awaited by confirmEndGame,
\* confirmEndGame continues: invalidateAnalyticsCache(); showGamesManager(),
\* which calls saveCurrentGame()
PersistReturns(i) ==
  LET rest == [j \in 1..(Len(persists) - 1) |->
                 IF j < i THEN persists[j] ELSE persists[j + 1]]
  IN IF persists[i].caller = "confirmEndGame"
     THEN /\ analyticsCache' = InvalidateAnalyticsCache
          /\ persists' = Append(rest, [pc |-> "saveGame",
                                       gameToSave |-> GameToSave(gameState),
                                       caller |-> "saveCurrentGame",
                                       bowlsWithIds |-> <<>>])
     ELSE /\ persists' = rest
          /\ UNCHANGED analyticsCache

\* await saveGame(gameToSave) completes: transactions on one store complete in
\* the order they were made, so the call is the first still at saveGame; the
\* call goes on to map the bowls gameState holds now
SaveGameDone(i) ==
  /\ i \in 1..Len(persists)
  /\ persists[i].pc = "saveGame"
  /\ \A j \in 1..(i - 1) : persists[j].pc = "saveBowlsBatch"
  /\ games' = Put(games, persists[i].gameToSave)
  /\ IF Len(gameState.bowls) > 0
     THEN /\ persists' = [persists EXCEPT ![i].pc = "saveBowlsBatch",
                                          ![i].bowlsWithIds = BowlsWithIds(gameState)]
          /\ UNCHANGED analyticsCache
     ELSE PersistReturns(i)
  /\ statsCall' = Overlapped(statsCall)
  /\ returned' = NoReturn
  /\ UNCHANGED <<bowls, gameState, pendingBowl, draggingBowl, tournaments,
                 settings, onboardingActive, nextId, ops, worker, legacy>>

\* await saveBowlsBatch(bowlsWithIds) completes
SaveBowlsBatchDone ==
  /\ Len(persists) > 0
  /\ persists[1].pc = "saveBowlsBatch"
  /\ bowls' = bowls \o persists[1].bowlsWithIds
  /\ PersistReturns(1)
  /\ statsCall' = Overlapped(statsCall)
  /\ returned' = NoReturn
  /\ UNCHANGED <<games, gameState, pendingBowl, draggingBowl, tournaments,
                 settings, onboardingActive, nextId, ops, worker, legacy>>

\* deleteGame(id): the game and the bowls whose gameId is id
DeleteGameFrom(store, id) == SelectSeq(store, LAMBDA g : g.id # id)

\* DeleteBowlsOf with a cursor that is not continued: the first bowl only
DeleteFirstBowlOf(store, id) ==
  LET at == {i \in 1..Len(store) : store[i].gameId = id}
  IN IF at = {} THEN store
     ELSE LET first == CHOOSE i \in at : \A j \in at : i <= j
          IN SubSeq(store, 1, first - 1) \o SubSeq(store, first + 1, Len(store))

\* the cursor over the key id of the gameId index deletes each bowl it visits
DeleteBowlsOf(store, id) == SelectSeq(store, LAMBDA b : b.gameId # id)

DeleteGame(id) ==
  /\ ~onboardingActive
  /\ Operation
  /\ \E i \in 1..Len(games) : games[i].id = id
  /\ games' = DeleteGameFrom(games, id)
  /\ bowls' = DeleteBowlsOf(bowls, id)
  /\ statsCall' = Overlapped(statsCall)
  /\ returned' = NoReturn
  /\ UNCHANGED <<analyticsCache, gameState, pendingBowl, draggingBowl, persists,
                 tournaments, settings, onboardingActive, nextId, worker, legacy>>

\* clearAllData(): every object store is cleared
ClearAllData ==
  /\ ~onboardingActive
  /\ Operation
  /\ Len(games) + Len(bowls) + Len(tournaments) + Cardinality(settings) > 0
  /\ games' = <<>>
  /\ bowls' = <<>>
  /\ tournaments' = <<>>
  /\ settings' = {}
  /\ statsCall' = Overlapped(statsCall)
  /\ returned' = NoReturn
  /\ UNCHANGED <<analyticsCache, gameState, pendingBowl, draggingBowl, persists,
                 onboardingActive, nextId,
                 worker, legacy>>

(***************************************************************************)
(* Demo data                                                               *)
(***************************************************************************)

\* weightedRandom(distribution): the scores drawn for the demo bowls
DemoScores == {1, 4}

\* generateBowlPosition(score): a distance within DISTANCE_BY_SCORE[score]
DistanceByScore(score) ==
  CASE score = 4 -> 30
    [] score = 3 -> 80
    [] score = 2 -> 150
    [] score = 1 -> 250
    [] OTHER -> 400

\* generateGame(config), scaled down to one singles game of player "A" with
\* one bowl of each side in its first end
DemoGame(gameId, tournamentId) ==
  [id |-> gameId, date |-> 20, endCount |-> 15, totalEnds |-> Undefined,
   format |-> "singles", completed |-> TRUE, tournamentId |-> tournamentId]

DemoBowls(gameId, score, oppScore) ==
  <<[gameId |-> gameId, playerId |-> "A", team |-> "yours", position |-> "Player",
     endNumber |-> 1, score |-> score, scoreValue |-> score,
     distance |-> DistanceByScore(score), distanceInFeet |-> DistanceByScore(score),
     hand |-> "forehand", direction |-> "Short", resultCategory |-> "Short"],
    [gameId |-> gameId, playerId |-> "opponent", team |-> "opponent",
     position |-> "Opponent", endNumber |-> 1, score |-> oppScore,
     scoreValue |-> oppScore, distance |-> DistanceByScore(oppScore),
     distanceInFeet |-> DistanceByScore(oppScore), hand |-> "forehand",
     direction |-> "Short", resultCategory |-> "Short"]>>

\* the stores after removeDemoData(): the games of the first tournament named
\* 'Summer Club Championship 2025' are deleted with their bowls, then the
\* tournament, then the setting is saved as false
RemoveDemoData(st) ==
  IF st.tournaments = <<>> THEN st
  ELSE LET demoTournament == Head(st.tournaments)
       IN [games |-> SelectSeq(st.games,
                        LAMBDA g : g.tournamentId # demoTournament.id),
           bowls |-> SelectSeq(st.bowls, LAMBDA b :
                        \A i \in 1..Len(st.games) :
                           st.games[i].tournamentId = demoTournament.id
                             => b.gameId # st.games[i].id),
           tournaments |-> Tail(st.tournaments),
           settings |-> st.settings \ {"demoDataLoaded"}]

\* the stores after generateDemoData(): the tournament, the game with its
\* bowls, then the setting is saved as true
GenerateDemoData(st, score, oppScore) ==
  LET tournamentId == IdNames[nextId + 1]
      gameId == IdNames[nextId + 2]
  IN [games |-> Append(st.games, DemoGame(gameId, tournamentId)),
      bowls |-> st.bowls \o DemoBowls(gameId, score, oppScore),
      tournaments |-> Append(st.tournaments, [id |-> tournamentId]),
      settings |-> st.settings \cup {"demoDataLoaded"}]

Stores == [games |-> games, bowls |-> bowls, tournaments |-> tournaments,
           settings |-> settings]

\* handleLoadDemoData(): if the demo data is loaded, it is removed and the
\* cache invalidated; the demo data is generated and the cache invalidated
HandleLoadDemoData(score, oppScore) ==
  /\ ~onboardingActive
  /\ PointerFree
  /\ Operation
  /\ LET loaded == "demoDataLoaded" \in settings
         removed == IF loaded THEN RemoveDemoData(Stores) ELSE Stores
         generated == GenerateDemoData(removed, score, oppScore)
     IN /\ games' = generated.games
        /\ bowls' = generated.bowls
        /\ tournaments' = generated.tournaments
        /\ settings' = generated.settings
  /\ nextId' = nextId + 2
  /\ analyticsCache' = InvalidateAnalyticsCache
  /\ statsCall' = Overlapped(statsCall)
  /\ returned' = NoReturn
  /\ UNCHANGED <<gameState, pendingBowl, draggingBowl, persists, onboardingActive,
                 worker, legacy>>

\* loadDemoDataAndClose(), the last onboarding step: hasVisited is saved, the
\* demo data is generated and the cache invalidated
LoadDemoDataAndClose(score, oppScore) ==
  /\ onboardingActive
  /\ Operation
  /\ onboardingActive' = FALSE
  /\ LET generated == GenerateDemoData(
                        [Stores EXCEPT !.settings = settings \cup {"hasVisited"}],
                        score, oppScore)
     IN /\ games' = generated.games
        /\ bowls' = generated.bowls
        /\ tournaments' = generated.tournaments
        /\ settings' = generated.settings
  /\ nextId' = nextId + 2
  /\ analyticsCache' = InvalidateAnalyticsCache
  /\ statsCall' = Overlapped(statsCall)
  /\ returned' = NoReturn
  /\ UNCHANGED <<gameState, pendingBowl, draggingBowl, persists,
                 worker, legacy>>

\* closeOnboarding()
CloseOnboarding ==
  /\ onboardingActive
  /\ Operation
  /\ onboardingActive' = FALSE
  /\ settings' = settings \cup {"hasVisited"}
  /\ returned' = NoReturn
  /\ UNCHANGED <<bowls, games, analyticsCache, statsCall, gameState, pendingBowl,
                 draggingBowl, persists, tournaments, nextId, worker, legacy>>

(***************************************************************************)
(* The handlers of the game screen                                         *)
(***************************************************************************)

\* what the stats call, the stores other than through persistCurrentGame, the
\* demo state and the id counter keep when a game-screen handler runs
HandlerFrame ==
  /\ Operation
  /\ returned' = NoReturn
  /\ UNCHANGED <<bowls, games, analyticsCache, statsCall, tournaments, settings,
                 onboardingActive, nextId, worker, legacy>>

\* the gameState object startGame() builds for the format chosen, the value of
\* the numberOfEnds dropdown and the id and date generated
StartedGame(format, numberOfEnds, gameId, date) ==
  LET config == FormatMap(format, numberOfEnds)
  IN [gameId |-> gameId, format |-> format,
      yourPlayers |-> SubSeq(<<"A", "B", "C", "D">>, 1, config.players),
      currentEnd |-> 1, totalEnds |-> config.ends,
      currentTeam |-> "yours", currentPlayerIndex |-> 0,
      bowlsPerPlayer |-> config.bowls, playersPerTeam |-> config.players,
      bowls |-> <<>>, completed |-> FALSE, date |-> date]

\* startGame(): the new gameState, saved with saveGame before the game
\* screen is shown
StartGame(format, numberOfEnds) ==
  LET started == StartedGame(format, numberOfEnds, IdNames[nextId + 1], 100 + nextId)
  IN /\ ~onboardingActive
     /\ PointerFree
     /\ Operation
     /\ nextId' = nextId + 1
     /\ gameState' = started
     /\ games' = Put(games, GameToSave(started))
     /\ statsCall' = Overlapped(statsCall)
     /\ returned' = NoReturn
     /\ UNCHANGED <<bowls, analyticsCache, pendingBowl, draggingBowl, persists, tournaments,
                    settings, onboardingActive, worker, legacy>>

\* the game screen is shown for a started game, and the onboarding overlay
\* does not cover the page
GameScreen == gameState.gameId # NoGameId /\ ~onboardingActive

\* handleCanvasClick(e) for a click that is near neither the jack nor a bowl,
\* distanceInFeet from the jack on the side resultCategory
HandleCanvasClick(distanceInFeet, resultCategory) ==
  LET bowl == NewBowl(gameState, distanceInFeet, resultCategory)
  IN /\ GameScreen
     /\ draggingBowl = NotDragging
     /\ BowlsThisEnd(gameState) <
          gameState.bowlsPerPlayer * gameState.playersPerTeam * 2
     /\ IF distanceInFeet > 500
        THEN /\ pendingBowl' = <<bowl>>
             /\ UNCHANGED <<gameState, persists>>
        ELSE /\ gameState' = PushBowl(gameState, FrontEndScored(gameState, bowl))
             /\ persists' = PersistCurrentGame(gameState', "handleCanvasClick")
             /\ UNCHANGED pendingBowl
     /\ UNCHANGED draggingBowl
     /\ HandlerFrame

\* confirmOffRink()
ConfirmOffRink ==
  /\ GameScreen
  /\ PointerFree
  /\ pendingBowl # NoBowl
  /\ gameState' = PushBowl(gameState,
                    [pendingBowl[1] EXCEPT !.scoreCategory = "Bowl off Rink",
                                           !.scoreValue = 0,
                                           !.resultCategory = "Off Rink"])
  /\ pendingBowl' = NoBowl
  /\ persists' = PersistCurrentGame(gameState', "confirmOffRink")
  /\ UNCHANGED draggingBowl
  /\ HandlerFrame

\* confirmOnRink()
ConfirmOnRink ==
  /\ GameScreen
  /\ PointerFree
  /\ pendingBowl # NoBowl
  /\ gameState' = PushBowl(gameState, FrontEndScored(gameState, pendingBowl[1]))
  /\ pendingBowl' = NoBowl
  /\ persists' = PersistCurrentGame(gameState', "confirmOnRink")
  /\ UNCHANGED draggingBowl
  /\ HandlerFrame

\* saveBowlScore() / closeBowlScoringModal() with a bowl pending
CloseBowlScoringModal ==
  /\ GameScreen
  /\ PointerFree
  /\ pendingBowl # NoBowl
  /\ pendingBowl' = NoBowl
  /\ UNCHANGED <<gameState, draggingBowl, persists>>
  /\ HandlerFrame

\* handleMouseDown(e) near bowl i of the current end
HandleMouseDown(i) ==
  /\ GameScreen
  /\ i \in 1..Len(gameState.bowls)
  /\ gameState.bowls[i].end = gameState.currentEnd
  /\ PointerFree
  /\ draggingBowl' = i
  /\ UNCHANGED <<gameState, pendingBowl, persists>>
  /\ HandlerFrame

\* handleMouseMove(e) with a bowl being dragged to distanceInFeet from the
\* jack on the side resultCategory
HandleMouseMove(distanceInFeet, resultCategory) ==
  /\ GameScreen
  /\ draggingBowl # NotDragging
  /\ LET bowl == gameState.bowls[draggingBowl]
         distanceCategory == GetDistanceCategory(distanceInFeet)
         moved == [bowl EXCEPT !.resultCategory = resultCategory,
                          !.distanceCategory = distanceCategory,
                          !.distanceInFeet = distanceInFeet]
         scored == IF bowl.team = "yours" /\ TruthyStr(bowl.scoreCategory)
                   THEN [moved EXCEPT
                      !.scoreValue = CalculateFrontEndScore(resultCategory,
                                                            distanceCategory),
                      !.scoreCategory = resultCategory]
                   ELSE moved
     IN gameState' = [gameState EXCEPT !.bowls[draggingBowl] = scored]
  /\ persists' = PersistCurrentGame(gameState', "handleMouseMove")
  /\ UNCHANGED <<pendingBowl, draggingBowl>>
  /\ HandlerFrame

\* handleMouseUp()
HandleMouseUp ==
  /\ draggingBowl # NotDragging
  /\ draggingBowl' = NotDragging
  /\ UNCHANGED <<gameState, pendingBowl, persists>>
  /\ HandlerFrame

\* undoLastBowl()
UndoLastBowl ==
  /\ GameScreen
  /\ PointerFree
  /\ Len(gameState.bowls) > 0
  /\ gameState' = [gameState EXCEPT
                     !.bowls = SubSeq(gameState.bowls, 1, Len(gameState.bowls) - 1)]
  /\ persists' = PersistCurrentGame(gameState', "undoLastBowl")
  /\ UNCHANGED <<pendingBowl, draggingBowl>>
  /\ HandlerFrame

\* NextEnd without the test of the last end: currentEnd is always incremented
NextEndPastLast ==
  /\ GameScreen
  /\ PointerFree
  /\ gameState' = [gameState EXCEPT !.currentEnd = gameState.currentEnd + 1,
                                    !.currentPlayerIndex = 0]
  /\ persists' = PersistCurrentGame(gameState', "nextEnd")
  /\ UNCHANGED <<pendingBowl, draggingBowl>>
  /\ HandlerFrame

\* nextEnd(), also as the last call of saveEndNotes(): at the last end the
\* end-game dialog is shown and nothing is changed or saved
NextEnd ==
  /\ GameScreen
  /\ PointerFree
  /\ IF gameState.currentEnd >= gameState.totalEnds
     THEN UNCHANGED <<gameState, persists>>
     ELSE /\ gameState' = [gameState EXCEPT !.currentEnd = gameState.currentEnd + 1,
                                            !.currentPlayerIndex = 0]
          /\ persists' = PersistCurrentGame(gameState', "nextEnd")
  /\ UNCHANGED <<pendingBowl, draggingBowl>>
  /\ HandlerFrame

\* selectTeam(team)
SelectTeam(team) ==
  /\ GameScreen
  /\ PointerFree
  /\ team # gameState.currentTeam
  /\ gameState' = [gameState EXCEPT !.currentTeam = team]
  /\ UNCHANGED <<pendingBowl, draggingBowl, persists>>
  /\ HandlerFrame

\* selectPlayer(index), index one of the player buttons
SelectPlayer(index) ==
  /\ GameScreen
  /\ PointerFree
  /\ index \in 0..(gameState.playersPerTeam - 1)
  /\ index # gameState.currentPlayerIndex
  /\ gameState' = [gameState EXCEPT !.currentPlayerIndex = index]
  /\ UNCHANGED <<pendingBowl, draggingBowl, persists>>
  /\ HandlerFrame

\* confirmEndGame() up to await persistCurrentGame(); the rest runs when that
\* call returns
ConfirmEndGame ==
  /\ GameScreen
  /\ PointerFree
  /\ gameState' = [gameState EXCEPT !.completed = TRUE]
  /\ persists' = PersistCurrentGame(gameState', "confirmEndGame")
  /\ UNCHANGED <<pendingBowl, draggingBowl>>
  /\ HandlerFrame

(***************************************************************************)
(* The application: recording, persistence, demo data and getPlayerStats   *)
(***************************************************************************)

\* where a click or a drag lands: the distance from the jack in hundredths of
\* a foot and the side of the jack; the last one is off the rink (> 5 ft)
CanvasInputs == {<<30, "Short">>, <<600, "Past">>}

\* the game formats started, and the value of the numberOfEnds field
StartInputs == {<<"triples2", 2>>}

\* the getPlayerStats calls made: player, game filter
StatsInputs == {<<"A", NoFilter>>, <<"A", "g1">>}

Init ==
  /\ bowls = <<>>
  /\ games = <<>>
  /\ analyticsCache = <<>>
  /\ statsCall = Idle
  /\ returned = NoReturn
  /\ gameState = InitialGameState
  /\ pendingBowl = NoBowl
  /\ draggingBowl = NotDragging
  /\ persists = <<>>
  /\ tournaments = <<>>
  /\ settings = {}
  /\ onboardingActive = TRUE
  /\ nextId = 0
  /\ ops = 0
  /\ Standalone

Next ==
  \/ \E in \in StartInputs : StartGame(in[1], in[2])
  \/ \E in \in CanvasInputs : HandleCanvasClick(in[1], in[2])
  \/ ConfirmOffRink
  \/ ConfirmOnRink
  \/ CloseBowlScoringModal
  \/ \E i \in 1..Len(gameState.bowls) : HandleMouseDown(i)
  \/ \E in \in CanvasInputs : HandleMouseMove(in[1], in[2])
  \/ HandleMouseUp
  \/ UndoLastBowl
  \/ NextEnd
  \/ \E team \in {"yours", "opponent"} : SelectTeam(team)
  \/ \E index \in 0..3 : SelectPlayer(index)
  \/ ConfirmEndGame
  \/ \E i \in 1..Len(persists) : SaveGameDone(i)
  \/ SaveBowlsBatchDone
  \/ \E i \in 1..Len(games) : DeleteGame(games[i].id)
  \/ ClearAllData
  \/ \E score \in DemoScores : HandleLoadDemoData(score, 2)
  \/ \E score \in DemoScores : LoadDemoDataAndClose(score, 2)
  \/ CloseOnboarding
  \/ \E in \in StatsInputs : GetPlayerStats(in[1], in[2])
  \/ GetAllBowlsDone
  \/ GetAllGamesDone

Spec == Init /\ [][Next]_vars

(***************************************************************************)
(* The aggregation as a function of the logs: the attempt log and the game *)
(* log are drawn from bounded sets and stay fixed; getPlayerStats is       *)
(* called for participant "A", for all games and for game "g1".            *)
(***************************************************************************)

\* longest attempt log drawn
MaxBowls == 3

\* all sequences over S of length at most n
SeqsUpTo(S, n) == UNION {[1..k -> S] : k \in 0..n}

\* a bowl record as generateGame and persistCurrentGame write it: score and
\* scoreValue agree, distance and distanceInFeet agree
Bowl(gameId, playerId, team, endNumber, score, dist) ==
  [gameId |-> gameId, playerId |-> playerId, team |-> team, position |-> "Lead",
   endNumber |-> endNumber, score |-> score, scoreValue |-> score,
   distance |-> dist, distanceInFeet |-> dist, hand |-> "forehand",
   direction |-> "Short", resultCategory |-> "Short"]

\* a bowl record as migrateFromLocalStorage writes it: no scoreValue, no distanceInFeet
MigratedBowl(gameId, playerId, team, endNumber, score, dist) ==
  [Bowl(gameId, playerId, team, endNumber, score, dist)
     EXCEPT !.scoreValue = Undefined, !.distanceInFeet = Undefined]

\* a game record as saveGame stores it
Game(id, date, endCount) ==
  [id |-> id, date |-> date, endCount |-> endCount, totalEnds |-> endCount,
   format |-> "pairs4", completed |-> TRUE]

StatsFilters == {NoFilter, "g1"}

StatsNext ==
  \/ \E f \in StatsFilters : GetPlayerStats("A", f)
  \/ GetAllBowlsDone
  \/ GetAllGamesDone

StatsInit(bowlInputs, gameLogs) ==
  /\ bowls \in SeqsUpTo(bowlInputs, MaxBowls)
  /\ games \in gameLogs
  /\ analyticsCache = <<>>
  /\ statsCall = Idle
  /\ returned = NoReturn
  /\ gameState = InitialGameState
  /\ pendingBowl = NoBowl
  /\ draggingBowl = NotDragging
  /\ persists = <<>>
  /\ tournaments = <<>>
  /\ settings = {}
  /\ onboardingActive = FALSE
  /\ nextId = 0
  /\ ops = 0
  /\ Standalone

\* scores: own bowls of A in g1 with each kind of score, one in g2, one of B,
\* one of the opponent side under the same name, one migrated
ScoreInputs ==
  {Bowl("g1", "A", "yours", 1, s, 50) : s \in {Undefined, Null, 0, 2, 3, 4}}
  \cup {Bowl("g2", "A", "yours", 1, 4, 50),
        Bowl("g1", "B", "yours", 1, 4, 50),
        Bowl("g1", "A", "opponent", 1, 4, 50),
        MigratedBowl("g1", "A", "yours", 1, 2, 50)}

TwoGames == <<Game("g1", 10, 4), Game("g2", 20, 4)>>

InitScores == StatsInit(ScoreInputs, {TwoGames})

SpecScores == InitScores /\ [][StatsNext]_vars

(***************************************************************************)
(* Properties of a getPlayerStats result, stated over the logs             *)
(***************************************************************************)

\* a getPlayerStats call has just returned / returned an object
Returned == returned.op = "getPlayerStats"
ReturnedStats == Returned /\ returned.value # <<>>

\* the attempts of the log that the returned call is about: playerId is the
\* participant, the team side is own, the game is the filter's when there is one
Own ==
  {i \in DOMAIN bowls :
     /\ bowls[i].playerId = returned.playerName
     /\ bowls[i].team = "yours"
     /\ (returned.filterGameId = NoFilter \/ bowls[i].gameId = returned.filterGameId)}

\* those of them that have a defined score
OwnScored == {i \in Own : bowls[i].score \notin {Undefined, Null}}

\* the sum of f[i] over the indices I
RECURSIVE SumOver(_, _)
SumOver(I, f) ==
  IF I = {} THEN 0
  ELSE LET i == CHOOSE j \in I : TRUE IN f[i] + SumOver(I \ {i}, f)

ScoreAt == [i \in DOMAIN bowls |-> bowls[i].score]
SquareAt == [i \in DOMAIN bowls |-> bowls[i].score * bowls[i].score]

\* the scores of OwnScored in log order
OwnScores ==
  LET s == SelectSeq(bowls, LAMBDA b :
             /\ b.playerId = returned.playerName /\ b.team = "yours"
             /\ (returned.filterGameId = NoFilter \/ b.gameId = returned.filterGameId)
             /\ b.score \notin {Undefined, Null})
  IN [i \in 1..Len(s) |-> s[i].score]

\* r (in hundredths) is the fraction n / d rounded to 2 decimals, halves up
IsRounded2(r, n, d) == (2 * r - 1) * d <= 200 * n /\ 200 * n < (2 * r + 1) * d

\* C2: getPlayerStats returns null exactly when the log holds no attempt of the
\* participant with team side own (of the filter's game when there is a filter);
\* otherwise totalBowls is the number of such attempts.
C2_NullIffNoOwnAttempts ==
  Returned =>
    /\ (returned.value = <<>>) <=> (Own = {})
    /\ returned.value # <<>> => returned.value[1].totalBowls = Cardinality(Own)

\* null for game g1 although A has an own attempt in g2 and an opponent-side
\* attempt in g1
C2_Witness ==
  /\ Returned /\ returned.value = <<>> /\ returned.filterGameId = "g1"
  /\ \E i \in DOMAIN bowls :
       bowls[i].playerId = "A" /\ bowls[i].team = "yours" /\ bowls[i].gameId = "g2"
  /\ \E i \in DOMAIN bowls :
       bowls[i].playerId = "A" /\ bowls[i].team = "opponent" /\ bowls[i].gameId = "g1"

\* C3: avgScore is the sum of the defined scores of the own attempts divided by
\* their number, rounded to 2 decimals, and 0 when none has a score; attempts
\* without a score count in neither; scores [4,2] give 3.00.
C3_AvgScoreOverScored ==
  ReturnedStats =>
    /\ IF OwnScored = {} THEN returned.value[1].avgScore = 0
       ELSE IsRounded2(returned.value[1].avgScore,
                       SumOver(OwnScored, ScoreAt), Cardinality(OwnScored))
    /\ OwnScores = <<4, 2>> => returned.value[1].avgScore = 300

\* scores 4 and 2 next to an attempt without a score: 3.00
C3_Witness ==
  /\ ReturnedStats /\ OwnScores = <<4, 2>> /\ Cardinality(Own) = 3
  /\ returned.value[1].avgScore = 300

\* C4: scoreDistribution has exactly the keys 0..4, each with the number of own
\* attempts of that score, and the counts sum to the number of scored attempts.
C4_ScoreDistribution ==
  ReturnedStats =>
    LET d == returned.value[1].scoreDistribution
    IN /\ DOMAIN d = 0..4
       /\ \A s \in 0..4 : d[s] = Cardinality({i \in OwnScored : bowls[i].score = s})
       /\ SumOver(0..4, d) = Cardinality(OwnScored)

\* two attempts of score 4, one without a score: key 4 counts 2, the rest 0
C4_Witness ==
  /\ ReturnedStats /\ OwnScores = <<4, 4>> /\ Cardinality(Own) = 3
  /\ returned.value[1].scoreDistribution[4] = 2
  /\ returned.value[1].scoreDistribution[0] = 0

C5_WitnessEqual ==
  ReturnedStats /\ OwnScores = <<3, 3, 3>> /\ returned.value[1].consistency = 0

\* distances: own bowls of A at both sides of every threshold (0.66, 0.67, 1.66
\* and 1.67 ft; 20 cm is 0.666.. ft and 50 cm is 1.666.. ft), scored 2 and 3,
\* one bowl of B, one migrated bowl at distance 0
DistanceInputs ==
  {Bowl("g1", "A", "yours", 1, s, d) : s \in {2, 3}, d \in {66, 67, 166, 167}}
  \cup {Bowl("g1", "B", "yours", 1, 3, 67),
        MigratedBowl("g1", "A", "yours", 1, 4, 0)}

InitDistance == StatsInit(DistanceInputs, {TwoGames})

SpecDistance == InitDistance /\ [][StatsNext]_vars

\* the own attempts in each zone, by distance in feet x 30 (hundredths: x 30
\* against 2000 and 5000)
InZone ==
  [z \in Zones |->
     {i \in Own :
        LET cm == bowls[i].distance * 30
        IN CASE z = "Close (<20cm)" -> cm < 2000
             [] z = "Medium (20-50cm)" -> cm >= 2000 /\ cm < 5000
             [] z = "Far (>50cm)" -> cm >= 5000}]

\* C7: each zone's rate is 100 x (attempts of the zone with score >= 3) /
\* (attempts of the zone), the zone of an attempt being decided by its distance
\* in feet x 30 (close < 20, medium >= 20 and < 50, far >= 50); the rate is in
\* [0,100] and exactly 0 for a zone without attempts.
C7_DistanceSuccessRates ==
  ReturnedStats =>
    LET rates == returned.value[1].distanceSuccessRates
    IN /\ DOMAIN rates = Zones
       /\ \A z \in Zones :
            LET good == {i \in InZone[z] : bowls[i].score >= 3}
            IN /\ rates[z].den > 0
               /\ rates[z].num * Cardinality(InZone[z])
                    = 100 * Cardinality(good) * rates[z].den
               /\ InZone[z] = {} => rates[z] = Zero
               /\ 0 <= rates[z].num /\ rates[z].num <= 100 * rates[z].den

\* 0.66 ft (score 3) is close, 0.67 ft (score 2) and 1.66 ft (score 3) are medium:
\* close 100, medium 50, far 0
C7_Witness ==
  /\ ReturnedStats
  /\ \E i, j, k \in Own :
       /\ bowls[i].distance = 66 /\ bowls[i].score = 3
       /\ bowls[j].distance = 67 /\ bowls[j].score = 2
       /\ bowls[k].distance = 166 /\ bowls[k].score = 3
  /\ returned.value[1].distanceSuccessRates["Close (<20cm)"] = [num |-> 100, den |-> 1]
  /\ returned.value[1].distanceSuccessRates["Medium (20-50cm)"] = [num |-> 50, den |-> 1]
  /\ returned.value[1].distanceSuccessRates["Far (>50cm)"] = Zero

\* C8: bowlDistribution counts every own attempt in exactly one bucket by its
\* distance in feet: short < 0.67, medium >= 0.67 and < 1.67, long >= 1.67; the
\* three counts sum to totalBowls.
C8_BowlDistribution ==
  ReturnedStats =>
    LET d == returned.value[1].bowlDistribution
    IN /\ d.short = Cardinality({i \in Own : bowls[i].distance < 67})
       /\ d.medium = Cardinality({i \in Own : bowls[i].distance >= 67
                                              /\ bowls[i].distance < 167})
       /\ d.long = Cardinality({i \in Own : bowls[i].distance >= 167})
       /\ d.short + d.medium + d.long = returned.value[1].totalBowls

\* one attempt at exactly 0.67 ft and one at exactly 1.67 ft: medium 1, long 1
C8_Witness ==
  /\ ReturnedStats
  /\ \E i, j \in Own : bowls[i].distance = 67 /\ bowls[j].distance = 167
  /\ Cardinality(Own) = 2
  /\ returned.value[1].bowlDistribution = [short |-> 0, medium |-> 1, long |-> 1]

\* ends: own bowls of A in ends 1 and 2 of g1 and in ends 18 and 19 of g2,
\* scored 1 and 3
EndInputs ==
  {Bowl("g1", "A", "yours", e, s, 50) : e \in {1, 2}, s \in {1, 3}}
  \cup {Bowl("g2", "A", "yours", e, s, 50) : e \in {18, 19}, s \in {1, 3}}

\* game logs: g1 of 4 ends with g2 of 21 ends; g2 absent; g2 without a usable
\* end count (startGame stores parseInt's NaN when no number of ends is chosen)
EndGameLogs ==
  {<<Game("g1", 10, 4), Game("g2", 20, 21)>>,
   <<Game("g1", 10, 4)>>,
   <<Game("g1", 10, 4), Game("g2", 20, NaN)>>}

InitEnds == StatsInit(EndInputs, EndGameLogs)

SpecEnds == InitEnds /\ [][StatsNext]_vars

\* the game of the log with this id, when there is one
GameIds == {games[k].id : k \in DOMAIN games}
GameOf(gid) == games[CHOOSE k \in DOMAIN games : games[k].id = gid]

\* the total round count of a game: its end count, 21 when it records none
TotalRounds(g) ==
  IF g.endCount \notin {Undefined, Null, NaN, 0} THEN g.endCount
  ELSE IF g.totalEnds \notin {Undefined, Null, NaN, 0} THEN g.totalEnds
  ELSE 21

\* the own attempts in the final 3 rounds of their own match; an attempt whose
\* match is not in the game log has no round count and does not qualify
Clutch ==
  {i \in Own :
     /\ bowls[i].gameId \in GameIds
     /\ bowls[i].endNumber >= TotalRounds(GameOf(bowls[i].gameId)) - 2}

\* C6: clutchAvg is the mean score (rounded to 2 decimals) over exactly the own
\* attempts whose round lies in the final 3 rounds of their own match (rounds
\* 19, 20, 21 of a match of 21), and 0 when no attempt qualifies.
C6_ClutchAvg ==
  ReturnedStats =>
    LET scored == {i \in Clutch : bowls[i].score \notin {Undefined, Null}}
    IN IF scored = {} THEN returned.value[1].clutchAvg = 0
       ELSE IsRounded2(returned.value[1].clutchAvg,
                       SumOver(scored, ScoreAt), Cardinality(scored))

\* all games: end 2 of g1 (4 ends; score 3) and end 19 of g2 (21 ends; score 1)
\* qualify, end 18 of g2 (score 3) does not: clutchAvg 2.00
C6_Witness ==
  /\ ReturnedStats /\ returned.filterGameId = NoFilter
  /\ Len(games) = 2 /\ games[2].endCount = 21
  /\ \E i, j, k \in Own :
       /\ bowls[i].gameId = "g1" /\ bowls[i].endNumber = 2 /\ bowls[i].score = 3
       /\ bowls[j].gameId = "g2" /\ bowls[j].endNumber = 19 /\ bowls[j].score = 1
       /\ bowls[k].gameId = "g2" /\ bowls[k].endNumber = 18 /\ bowls[k].score = 3
  /\ returned.value[1].clutchAvg = 200

\* the (game id, round) groups of the own attempts
EndKey(i) == <<bowls[i].gameId, bowls[i].endNumber>>
EndGroups == {EndKey(i) : i \in Own}
GroupOf(k) == {i \in Own : EndKey(i) = k}
GroupTotal(k) == SumOver(GroupOf(k), ScoreAt)
GroupCount(k) == Cardinality(GroupOf(k))

\* the place in the log where group k is first encountered
FirstAt(k) == CHOOSE i \in GroupOf(k) : \A j \in GroupOf(k) : i <= j

\* mean(k) >= mean(l), and mean(k) = mean(l)
MeanGeq(k, l) == GroupTotal(k) * GroupCount(l) >= GroupTotal(l) * GroupCount(k)
MeanEq(k, l) == GroupTotal(k) * GroupCount(l) = GroupTotal(l) * GroupCount(k)

\* the entry reports group k with its total, count and mean
ReportsGroup(entry, k) ==
  /\ entry # <<>>
  /\ <<entry[1].gameId, entry[1].end>> = k
  /\ entry[1].total = GroupTotal(k) /\ entry[1].count = GroupCount(k)
  /\ entry[1].avg.num * GroupCount(k) = GroupTotal(k) * entry[1].avg.den

\* bestEnd is a group of maximal mean, the first encountered of those
BestIsFirstOfMax ==
  \E k \in EndGroups :
    /\ ReportsGroup(returned.value[1].bestEnd, k)
    /\ \A l \in EndGroups : MeanGeq(k, l) /\ (MeanEq(k, l) => FirstAt(k) <= FirstAt(l))

\* C10 as claimed: bestEnd is a group of maximal mean and worstEnd a group of
\* minimal mean, each the first encountered in log order among the groups that
\* tie for the extreme.
C10_FirstEncounteredWinsBoth ==
  ReturnedStats =>
    /\ BestIsFirstOfMax
    /\ \E k \in EndGroups :
         /\ ReportsGroup(returned.value[1].worstEnd, k)
         /\ \A l \in EndGroups :
              MeanGeq(l, k) /\ (MeanEq(k, l) => FirstAt(k) <= FirstAt(l))

\* C10 amended: bestEnd is the first encountered of the groups of maximal mean;
\* worstEnd is the last encountered of the groups of minimal mean.
C10_BestFirstWorstLast ==
  ReturnedStats =>
    /\ BestIsFirstOfMax
    /\ \E k \in EndGroups :
         /\ ReportsGroup(returned.value[1].worstEnd, k)
         /\ \A l \in EndGroups :
              MeanGeq(l, k) /\ (MeanEq(k, l) => FirstAt(k) >= FirstAt(l))

\* three groups in log order (g1,1) mean 1, (g1,2) mean 3, (g2,18) mean 1:
\* worstEnd is (g2,18), the later of the two groups of mean 1
C10_Witness ==
  /\ ReturnedStats /\ returned.filterGameId = NoFilter
  /\ Len(bowls) = 3 /\ Own = {1, 2, 3}
  /\ EndKey(1) = <<"g1", 1>> /\ bowls[1].score = 1
  /\ EndKey(2) = <<"g1", 2>> /\ bowls[2].score = 3
  /\ EndKey(3) = <<"g2", 18>> /\ bowls[3].score = 1
  /\ returned.value[1].worstEnd[1].gameId = "g2"
  /\ returned.value[1].bestEnd[1].end = 2

\* games: own bowls of A in g1 (two different ones), g2 and g3, a bowl of B
\* and an opponent-side bowl
GameInputs ==
  {Bowl(g, "A", "yours", 1, 2, 50) : g \in {"g1", "g2", "g3"}}
  \cup {Bowl("g1", "A", "yours", 2, 4, 50),
        Bowl("g2", "B", "yours", 1, 4, 50),
        Bowl("g3", "A", "opponent", 1, 4, 50)}

\* game logs in key order, the dates not in key order; with and without g3
PerformanceGameLogs ==
  {<<Game("g1", 30, 4), Game("g2", 10, 4), Game("g3", 20, 4)>>,
   <<Game("g1", 30, 4), Game("g2", 10, 4)>>}

InitGames == StatsInit(GameInputs, PerformanceGameLogs)

SpecGames == InitGames /\ [][StatsNext]_vars

\* the distinct game ids of the own attempts
OwnGameIds == {bowls[i].gameId : i \in Own}

\* gamePerformance has one entry per distinct game id, with its bowl count, and
\* gamesPlayed is their number
OneEntryPerGame ==
  LET gp == returned.value[1].gamePerformance
  IN /\ Len(gp) = Cardinality(OwnGameIds)
     /\ returned.value[1].gamesPlayed = Len(gp)
     /\ \A g \in OwnGameIds :
          \E k \in DOMAIN gp :
            /\ gp[k].gameId = g
            /\ gp[k].bowlCount = Cardinality({i \in Own : bowls[i].gameId = g})
            /\ \A l \in DOMAIN gp : gp[l].gameId = g => l = k

\* the entries that carry a date are in non-decreasing order of date
DatedInOrder ==
  LET gp == returned.value[1].gamePerformance
  IN \A k, l \in DOMAIN gp :
       (k < l /\ gp[k].gameId \in GameIds /\ gp[l].gameId \in GameIds)
         => gp[k].date <= gp[l].date

\* C9: gamePerformance has exactly one entry per distinct game id of the own
\* attempts (as many as gamesPlayed), each with the number of own attempts of
\* that game, in non-decreasing order of game date, also when the game of some
\* attempt is absent from the game log.
C9_GamePerformanceSortedByDate ==
  ReturnedStats => OneEntryPerGame /\ DatedInOrder

\* what holds of gamePerformance: the entries and their counts always, the
\* order by date when every game of the own attempts is in the game log
GamePerformanceWhenGamesPresent ==
  ReturnedStats =>
    /\ OneEntryPerGame
    /\ OwnGameIds \subseteq GameIds => DatedInOrder

(***************************************************************************)
(* Freshness of getPlayerStats results across store mutations              *)
(***************************************************************************)

\* the getPlayerStats call that has just returned was issued when every
\* persistCurrentGame call had settled, and no store write fell into it
ReturnedSettled == Returned /\ returned.clean

\* C1: a getPlayerStats(player, game) call issued after the storage writes of
\* all mutations have settled returns the statistics computed afresh from the
\* current contents of the store, never a result memoized before a mutation
C1_StatsFreshAfterMutation ==
  ReturnedSettled =>
    returned.value = ComputeStats(returned.playerName, returned.filterGameId,
                                  bowls, games)

\* a settled call that misses the cache returns the statistics of the current
\* store: staleness comes from the cache only
FreshWhenComputed ==
  ReturnedSettled /\ returned.cached = FALSE =>
    returned.value = ComputeStats(returned.playerName, returned.filterGameId,
                                  bowls, games)

(***************************************************************************)
(* getGameSummaries: one summary per game of the game log                  *)
(***************************************************************************)

\* the names of the inputs that are array indices ("1", "2"), in ascending
\* numeric order: an object lists such keys before its other keys
IndexKeys == <<"1", "2">>

\* Object.entries(o) for an object whose keys were inserted in the order of
\* entries: index keys first, ascending, then the other keys in insertion order
ObjectEntries(entries) ==
  LET at(k) == {i \in 1..Len(entries) : entries[i].name = k}
      indexed == SelectSeq(IndexKeys, LAMBDA k : at(k) # {})
  IN [i \in 1..Len(indexed) |-> entries[CHOOSE j \in at(indexed[i]) : TRUE]]
     \o SelectSeq(entries, LAMBDA e : \A i \in 1..Len(IndexKeys) : IndexKeys[i] # e.name)

\* playerScores[b.playerId] = { total, count } after the pass over yourBowls,
\* in insertion order
RECURSIVE PlayerScores(_)
PlayerScores(yourBowls) ==
  IF yourBowls = <<>> THEN <<>>
  ELSE LET acc == PlayerScores(SubSeq(yourBowls, 1, Len(yourBowls) - 1))
           b == yourBowls[Len(yourBowls)]
           at == {i \in 1..Len(acc) : acc[i].name = b.playerId}
       IN IF at = {}
          THEN Append(acc, [name |-> b.playerId, total |-> ScoreOf(b), count |-> 1])
          ELSE [i \in 1..Len(acc) |->
                  IF i \in at
                  THEN [acc[i] EXCEPT !.total = @ + ScoreOf(b), !.count = @ + 1]
                  ELSE acc[i]]

\* let topPerformer = '', topAvg = 0; for each entry: if (avg > topAvg) take it.
\* topAvg is kept as total / count
RECURSIVE TopPerformer(_)
TopPerformer(entries) ==
  IF entries = <<>> THEN [name |-> "", total |-> 0, count |-> 1]
  ELSE LET top == TopPerformer(SubSeq(entries, 1, Len(entries) - 1))
           e == entries[Len(entries)]
       IN IF e.count > 0 /\ e.total * top.count > top.total * e.count
          THEN e ELSE top

\* SummaryAvgScore without the test of the length: 0 / 0 is NaN
SummaryAvgScoreUnguarded(scoredBowls) ==
  IF Len(scoredBowls) > 0
  THEN Round2(SumScores(scoredBowls), Len(scoredBowls)) ELSE NaN

\* Math.round(avgScore * 100) / 100, avgScore = length > 0 ? sum / length : 0
SummaryAvgScore(scoredBowls) ==
  IF Len(scoredBowls) > 0
  THEN Round2(SumScores(scoredBowls), Len(scoredBowls)) ELSE 0

\* the summary of one game
GameSummary(game, allBowls) ==
  LET gameBowls == SelectSeq(allBowls, LAMBDA b : b.gameId = game.id)
      yourBowls == SelectSeq(gameBowls, LAMBDA b : b.team = "yours")
      scoredBowls == SelectSeq(yourBowls, LAMBDA b : b.score # Undefined)
      top == TopPerformer(ObjectEntries(PlayerScores(yourBowls)))
  IN [id |-> game.id,
      format |-> game.format,
      date |-> game.date,
      totalEnds |-> TotalEndsOf(game),
      totalBowls |-> Len(gameBowls),
      avgScore |-> SummaryAvgScore(scoredBowls),
      topPerformer |-> top.name,
      topAvg |-> Round2(top.total, top.count),
      completed |-> game.completed]

\* (a, b) => new Date(b.date) - new Date(a.date); a NaN result compares as +0
CompareDateDesc(a, b) == CompareDate(b, a)

\* InsertByDateDesc moving an element in front of the elements it ties with
RECURSIVE InsertByDateDescUnstable(_, _)
InsertByDateDescUnstable(sorted, e) ==
  IF sorted = <<>> THEN <<e>>
  ELSE IF CompareDateDesc(sorted[Len(sorted)], e) >= 0
       THEN Append(InsertByDateDescUnstable(SubSeq(sorted, 1, Len(sorted) - 1), e),
                   sorted[Len(sorted)])
       ELSE Append(sorted, e)

\* Array.prototype.sort with CompareDateDesc: stable insertion, left to right
RECURSIVE InsertByDateDesc(_, _)
InsertByDateDesc(sorted, e) ==
  IF sorted = <<>> THEN <<e>>
  ELSE IF CompareDateDesc(sorted[Len(sorted)], e) > 0
       THEN Append(InsertByDateDesc(SubSeq(sorted, 1, Len(sorted) - 1), e),
                   sorted[Len(sorted)])
       ELSE Append(sorted, e)

RECURSIVE SortByDateDesc(_)
SortByDateDesc(s) ==
  IF s = <<>> THEN <<>>
  ELSE InsertByDateDesc(SortByDateDesc(SubSeq(s, 1, Len(s) - 1)), s[Len(s)])

\* GameSummaries leaving out the games without attempts
GameSummariesOfPlayed(allGames, allBowls) ==
  LET played == SelectSeq(allGames, LAMBDA g :
                  \E i \in DOMAIN allBowls : allBowls[i].gameId = g.id)
  IN SortByDateDesc([i \in 1..Len(played) |-> GameSummary(played[i], allBowls)])

\* allGames.map(game => summary).sort(by date, descending)
GameSummaries(allGames, allBowls) ==
  SortByDateDesc([i \in 1..Len(allGames) |-> GameSummary(allGames[i], allBowls)])

\* getGameSummaries(): both logs are read, the summaries are returned
GetGameSummaries ==
  /\ returned' = [op |-> "getGameSummaries", value |-> GameSummaries(games, bowls)]
  /\ UNCHANGED <<bowls, games, analyticsCache, statsCall, recording, ops>>

(***************************************************************************)
(* The round progression of a game (the drill-down view)                   *)
(***************************************************************************)

\* getBowlsByGame(gameId): the bowls under the key gameId of the index
GetBowlsByGame(allBowls, gameId) == SelectSeq(allBowls, LAMBDA b : b.gameId = gameId)

\* game.endNotes?.[e] || ''
EndNotesOf(game, e) ==
  IF "endNotes" \in DOMAIN game
  THEN (IF e \in DOMAIN game.endNotes THEN game.endNotes[e] ELSE "")
  ELSE ""

\* (b.endNumber || b.end) === e: a record that has a field end has the same
\* value in endNumber
InEnd(b, e) == Truthy(b.endNumber) /\ b.endNumber = e

\* EndData without the ends that have no bowl
EndDataPlayedOnly(game, yourBowls) ==
  SelectSeq([e \in 1..TotalEndsOf(game) |->
               LET endBowls == SelectSeq(yourBowls, LAMBDA b : InEnd(b, e))
               IN [end |-> e,
                   totalScore |-> SumScores(endBowls),
                   avgScore |-> IF Len(endBowls) > 0
                                THEN Quot(SumScores(endBowls), Len(endBowls)) ELSE Zero,
                   bowlCount |-> Len(endBowls),
                   notes |-> EndNotesOf(game, e)]],
            LAMBDA r : r.bowlCount > 0)

\* endData: one record per end 1..totalEnds over yourBowls
EndData(game, yourBowls) ==
  [e \in 1..TotalEndsOf(game) |->
     LET endBowls == SelectSeq(yourBowls, LAMBDA b : InEnd(b, e))
         endScore == SumScores(endBowls)
         endCount == Len(endBowls)
     IN [end |-> e,
         totalScore |-> endScore,
         avgScore |-> IF endCount > 0 THEN Quot(endScore, endCount) ELSE Zero,
         bowlCount |-> endCount,
         notes |-> EndNotesOf(game, e)]]

\* yourBowls of the drill-down: the own bowls of the game, of selectedPlayer
\* only unless it is 'all' (b.playerId || b.playerName || b.player: every
\* record has a playerId)
DrillDownBowls(allBowls, gameId, selectedPlayer) ==
  LET yourBowls == SelectSeq(GetBowlsByGame(allBowls, gameId), LAMBDA b : b.team = "yours")
  IN IF selectedPlayer # "all"
     THEN SelectSeq(yourBowls, LAMBDA b : b.playerId = selectedPlayer)
     ELSE yourBowls

\* showGameDrillDown(gameId): if (!game) return; otherwise the view is built
ShowGameDrillDown(gameId) ==
  LET game == FindGame(games, gameId)
  IN /\ returned' =
          IF game = <<>>
          THEN [op |-> "showGameDrillDown", gameId |-> gameId,
                selectedPlayer |-> "all", rendered |-> FALSE, endData |-> <<>>]
          ELSE [op |-> "showGameDrillDown", gameId |-> gameId,
                selectedPlayer |-> "all", rendered |-> TRUE,
                endData |-> EndData(game[1], DrillDownBowls(bowls, gameId, "all"))]
     /\ UNCHANGED <<bowls, games, analyticsCache, statsCall, recording, ops>>

\* filterDrillDownByPlayer(gameId) with the value of the player filter
FilterDrillDownByPlayer(gameId, selectedPlayer) ==
  LET game == FindGame(games, gameId)
  IN /\ returned' =
          IF game = <<>>
          THEN [op |-> "filterDrillDownByPlayer", gameId |-> gameId,
                selectedPlayer |-> selectedPlayer, rendered |-> FALSE, endData |-> <<>>]
          ELSE [op |-> "filterDrillDownByPlayer", gameId |-> gameId,
                selectedPlayer |-> selectedPlayer, rendered |-> TRUE,
                endData |-> EndData(game[1], DrillDownBowls(bowls, gameId, selectedPlayer))]
     /\ UNCHANGED <<bowls, games, analyticsCache, statsCall, recording, ops>>

(***************************************************************************)
(* The summaries and the round progression as functions of the logs: the   *)
(* logs are drawn from bounded sets and stay fixed.                        *)
(***************************************************************************)

\* a bowl record without score, distance, hand and round
SparseBowl(gameId, playerId, team) ==
  [Bowl(gameId, playerId, team, Undefined, Undefined, Undefined)
     EXCEPT !.hand = UndefinedStr]

\* a game record with notes for its first two ends, the second one empty
AnnotatedGame(id, date, endCount) ==
  [id |-> id, date |-> date, endCount |-> endCount, totalEnds |-> endCount,
   format |-> "pairs4", completed |-> TRUE,
   endNotes |-> <<"windy", "">>]

\* own bowls of A, B and "1" in g1 with equal and with zero scores, a bowl of
\* the opponent side, bowls without a score and without the other fields, a
\* bowl in g2 and one in g3, which no game log holds
SummaryInputs ==
  {Bowl("g1", "A", "yours", 1, 4, 50),
   Bowl("g1", "B", "yours", 2, 4, 50),
   Bowl("g1", "A", "yours", 2, 0, 50),
   Bowl("g1", "1", "yours", 1, 4, 50),
   Bowl("g1", "A", "opponent", 1, 3, 50),
   Bowl("g1", "A", "yours", 1, Undefined, 50),
   Bowl("g1", "B", "yours", 3, Null, 50),
   SparseBowl("g1", "A", "yours"),
   Bowl("g2", "B", "yours", 1, 2, 50),
   Bowl("g3", "A", "yours", 1, 3, 50)}

\* a game record with totalEnds and without endCount
LegacyGame(id, date, totalEnds) ==
  [Game(id, date, totalEnds) EXCEPT !.endCount = Undefined]

SummaryDates == {10, 20}

\* the games g1, g2 and g4 in key order, with every choice of dates
SummaryGameLogs ==
  {<<AnnotatedGame("g1", d1, 3), LegacyGame("g2", d2, 2), Game("g4", d4, 3)>> :
     d1 \in SummaryDates, d2 \in SummaryDates, d4 \in SummaryDates}

DrillDownGames == {"g1", "g2", "g3"}

DrillDownPlayers == {"all", "A", "B"}

SummaryNext ==
  \/ GetGameSummaries
  \/ \E g \in DrillDownGames : ShowGameDrillDown(g)
  \/ \E g \in DrillDownGames, p \in DrillDownPlayers : FilterDrillDownByPlayer(g, p)

InitSummaries == StatsInit(SummaryInputs, SummaryGameLogs)

SpecSummaries == InitSummaries /\ [][SummaryNext]_vars

(***************************************************************************)
(* All three views over logs with incomplete records                       *)
(***************************************************************************)

\* own bowls of A in g1 with and without a score, a bowl without score,
\* distance, hand and round in g1 and one in g3, which no game log holds, a
\* complete bowl in g3, and a bowl of the opponent side
TotalInputs ==
  {Bowl("g1", "A", "yours", 3, 4, 50),
   Bowl("g1", "A", "yours", 1, Undefined, 50),
   SparseBowl("g1", "A", "yours"),
   SparseBowl("g3", "A", "yours"),
   Bowl("g3", "A", "yours", 1, 3, 50),
   Bowl("g1", "A", "opponent", 1, 3, 50)}

\* the game log with g1 and g2, and the empty game log
TotalGameLogs == {<<AnnotatedGame("g1", 10, 3), Game("g2", 20, 3)>>, <<>>}

TotalNext ==
  \/ StatsNext
  \/ GetGameSummaries
  \/ \E g \in DrillDownGames : ShowGameDrillDown(g)
  \/ \E g \in DrillDownGames : FilterDrillDownByPlayer(g, "A")

InitTotal == StatsInit(TotalInputs, TotalGameLogs)

SpecTotal == InitTotal /\ [][TotalNext]_vars

\* a number field (in hundredths) holds a finite number, not less than 0
FiniteNumber(x) == x \notin {Undefined, Null, NaN, EmptyDate} /\ x >= 0

\* a quotient holds a finite number, not less than 0
FiniteQuot(q) == q.den > 0 /\ q.num >= 0

ReturnedSummaries == returned.op = "getGameSummaries"
ReturnedEndData ==
  returned.op \in {"showGameDrillDown", "filterDrillDownByPlayer"} /\ returned.rendered

\* the own attempts of the returned getPlayerStats call with any score field
OwnWithScore == {i \in Own : bowls[i].score # Undefined}

\* the own attempts of a game
OwnOfGame(gid) == {i \in DOMAIN bowls : bowls[i].gameId = gid /\ bowls[i].team = "yours"}

\* C11: over logs that hold attempts without score, distance, hand or round and
\* attempts of a match that is not in the match log, every rate and average of
\* a getPlayerStats result, of each getGameSummaries entry and of each
\* round-progression record is a finite number, and it is exactly 0 when its
\* denominator is 0.
C11_RatesFiniteZeroWhenEmpty ==
  /\ ReturnedStats =>
       LET st == returned.value[1]
       IN /\ FiniteNumber(st.avgScore) /\ FiniteNumber(st.consistency)
          /\ FiniteNumber(st.clutchAvg)
          /\ OwnScored = {} => st.avgScore = 0 /\ st.consistency = 0
          /\ {i \in OwnWithScore :
                /\ bowls[i].gameId \in GameIds
                /\ bowls[i].endNumber # Undefined
                /\ bowls[i].endNumber > TotalRounds(GameOf(bowls[i].gameId)) - 3} = {}
               => st.clutchAvg = 0
          /\ \A z \in Zones :
               /\ FiniteQuot(st.distanceSuccessRates[z])
               /\ {i \in Own : ZoneOf(bowls[i]) = z} = {}
                    => st.distanceSuccessRates[z] = Zero
          /\ \A k \in DOMAIN st.gamePerformance :
               LET e == st.gamePerformance[k]
               IN /\ FiniteQuot(e.avgScore)
                  /\ {i \in OwnWithScore : bowls[i].gameId = e.gameId} = {}
                       => e.avgScore = Zero
          /\ st.bestEnd # <<>> /\ st.worstEnd # <<>>
          /\ FiniteQuot(st.bestEnd[1].avg) /\ FiniteQuot(st.worstEnd[1].avg)
  /\ ReturnedSummaries =>
       \A k \in DOMAIN returned.value :
         LET s == returned.value[k]
         IN /\ FiniteNumber(s.avgScore) /\ FiniteNumber(s.topAvg)
            /\ {i \in OwnOfGame(s.id) : bowls[i].score # Undefined} = {}
                 => s.avgScore = 0
            /\ OwnOfGame(s.id) = {} => s.topAvg = 0
  /\ ReturnedEndData =>
       \A e \in DOMAIN returned.endData :
         LET r == returned.endData[e]
         IN /\ FiniteQuot(r.avgScore) /\ r.totalScore >= 0
            /\ r.bowlCount = 0 => r.avgScore = Zero

\* the summaries of a log whose only own attempts of g1 have no score, with an
\* attempt of the absent match g3: g1 has avgScore 0
C11_Witness ==
  /\ ReturnedSummaries /\ Len(returned.value) = 2
  /\ \E i \in OwnOfGame("g1") : bowls[i] = SparseBowl("g1", "A", "yours")
  /\ \E i \in OwnOfGame("g3") : bowls[i] = SparseBowl("g3", "A", "yours")
  /\ \A i \in OwnOfGame("g1") : bowls[i].score = Undefined
  /\ \E k \in DOMAIN returned.value :
       returned.value[k].id = "g1" /\ returned.value[k].avgScore = 0
         /\ returned.value[k].totalBowls > 0

\* getPlayerStats over attempts without score, distance, hand and round only
C11_WitnessStats ==
  /\ ReturnedStats /\ games # <<>>
  /\ \A i \in Own : bowls[i].score = Undefined /\ bowls[i].endNumber = Undefined
  /\ \E i \in Own : bowls[i].gameId = "g3"
  /\ returned.value[1].avgScore = 0 /\ returned.value[1].clutchAvg = 0

\* the round progression of g1 with a round without attempts
C11_WitnessEndData ==
  /\ ReturnedEndData
  /\ \E e \in DOMAIN returned.endData : returned.endData[e].bowlCount = 0
  /\ \E e \in DOMAIN returned.endData : returned.endData[e].bowlCount > 0
  /\ \E i \in OwnOfGame("g1") : bowls[i].endNumber = Undefined

\* the position of the game with this id in the game log
GameIndex(gid) == CHOOSE k \in DOMAIN games : games[k].id = gid

\* C12: getGameSummaries returns exactly one summary per match of the match
\* log, ordered by match date descending, matches of equal date in match-log
\* order.
C12_OneSummaryPerGameDateDescending ==
  ReturnedSummaries =>
    LET v == returned.value
    IN /\ Len(v) = Len(games)
       /\ \A g \in DOMAIN games :
            Cardinality({k \in DOMAIN v : v[k].id = games[g].id}) = 1
       /\ \A k \in DOMAIN v : v[k].date = games[GameIndex(v[k].id)].date
       /\ \A k, l \in DOMAIN v :
            k < l => \/ v[k].date > v[l].date
                     \/ /\ v[k].date = v[l].date
                        /\ GameIndex(v[k].id) < GameIndex(v[l].id)

\* dates 10, 20, 10 for g1, g2, g4: the summaries come as g2, g1, g4
C12_Witness ==
  /\ ReturnedSummaries
  /\ [k \in DOMAIN games |-> games[k].date] = <<10, 20, 10>>
  /\ [k \in DOMAIN returned.value |-> returned.value[k].id] = <<"g2", "g1", "g4">>

\* b.scoreValue || b.score || 0 of each attempt of the log
ValueAt == [i \in DOMAIN bowls |-> ScoreOf(bowls[i])]

\* the own attempts of a participant in a game, and the first of them
OwnOfIn(p, gid) == {i \in OwnOfGame(gid) : bowls[i].playerId = p}
FirstOfIn(p, gid) == CHOOSE i \in OwnOfIn(p, gid) : \A j \in OwnOfIn(p, gid) : i <= j

\* the own participants of a game
OwnNames(gid) == {bowls[i].playerId : i \in OwnOfGame(gid)}

\* mean of p >= mean of q / mean of p = mean of q in game gid
MeanGeqIn(p, q, gid) ==
  SumOver(OwnOfIn(p, gid), ValueAt) * Cardinality(OwnOfIn(q, gid))
    >= SumOver(OwnOfIn(q, gid), ValueAt) * Cardinality(OwnOfIn(p, gid))
MeanEqIn(p, q, gid) == MeanGeqIn(p, q, gid) /\ MeanGeqIn(q, p, gid)

\* the summary names a participant of maximal mean, first encountered among
\* those of that mean, and topAvg is that mean
TopIsFirstOfMax(s) ==
  /\ s.topPerformer \in OwnNames(s.id)
  /\ \A q \in OwnNames(s.id) : MeanGeqIn(s.topPerformer, q, s.id)
  /\ IsRounded2(s.topAvg, SumOver(OwnOfIn(s.topPerformer, s.id), ValueAt),
                Cardinality(OwnOfIn(s.topPerformer, s.id)))
  /\ \A q \in OwnNames(s.id) :
       MeanEqIn(q, s.topPerformer, s.id)
         => FirstOfIn(s.topPerformer, s.id) <= FirstOfIn(q, s.id)

\* C13: for every match with at least one own-team attempt, topPerformer is an
\* own-team participant of the match of maximal mean score, topAvg is that
\* mean, and of the participants tied for the maximum the first one of the
\* attempt log is reported.
C13_TopPerformerFirstOfMaximalMean ==
  ReturnedSummaries =>
    \A k \in DOMAIN returned.value :
      OwnOfGame(returned.value[k].id) # {} => TopIsFirstOfMax(returned.value[k])

\* the same for the matches where some own participant has a mean above 0 and
\* no participant's name is an array index
TopPerformerWhenScoredAndNamed ==
  ReturnedSummaries =>
    \A k \in DOMAIN returned.value :
      LET s == returned.value[k]
      IN /\ \E i \in OwnOfGame(s.id) : ValueAt[i] > 0
         /\ \A i \in 1..Len(IndexKeys) : IndexKeys[i] \notin OwnNames(s.id)
         => TopIsFirstOfMax(s)

\* C14: totalBowls of every summary is the number of the match's attempts of
\* the own side, and avgScore is the mean score of the own-side attempts that
\* have a score (0 when there is none); attempts of the opponent side count in
\* neither.
C14_OwnAttemptsOnly ==
  ReturnedSummaries =>
    \A k \in DOMAIN returned.value :
      LET s == returned.value[k]
          scored == {i \in OwnOfGame(s.id) : bowls[i].score # Undefined}
      IN /\ s.totalBowls = Cardinality(OwnOfGame(s.id))
         /\ IF scored = {} THEN s.avgScore = 0
            ELSE IsRounded2(s.avgScore, SumOver(scored, ValueAt), Cardinality(scored))

\* the avgScore part of C14 alone
SummaryAvgOverOwnScored ==
  ReturnedSummaries =>
    \A k \in DOMAIN returned.value :
      LET s == returned.value[k]
          scored == {i \in OwnOfGame(s.id) : bowls[i].score # Undefined}
      IN /\ s.totalBowls = Cardinality({i \in DOMAIN bowls : bowls[i].gameId = s.id})
         /\ IF scored = {} THEN s.avgScore = 0
            ELSE IsRounded2(s.avgScore, SumOver(scored, ValueAt), Cardinality(scored))

\* C15 as stated: over an empty attempt log getGameSummaries returns the empty
\* sequence, for every match log.
C15_EmptyLogEmptySummaries ==
  ReturnedSummaries /\ bowls = <<>> => returned.value = <<>>

\* C15: over an empty attempt log getGameSummaries returns one summary per
\* match, each with totalBowls 0, avgScore 0, no topPerformer and topAvg 0; the
\* result is the empty sequence exactly when the match log is empty.
C15_EmptyLogZeroSummaries ==
  ReturnedSummaries /\ bowls = <<>> =>
    /\ Len(returned.value) = Len(games)
    /\ (returned.value = <<>>) <=> (games = <<>>)
    /\ \A k \in DOMAIN returned.value :
         LET s == returned.value[k]
         IN /\ s.id \in GameIds
            /\ s.totalBowls = 0 /\ s.avgScore = 0
            /\ s.topPerformer = "" /\ s.topAvg = 0

\* two matches, no attempts: two all-zero summaries
C15_Witness ==
  /\ ReturnedSummaries /\ bowls = <<>> /\ Len(games) = 2
  /\ Len(returned.value) = 2 /\ returned.value[1].totalBowls = 0

(***************************************************************************)
(* The team comparison and the form indicator                              *)
(***************************************************************************)

\* getAllPlayerNames(): the distinct playerIds of the own bowls in order of
\* first occurrence, without '' and 'opponent'
GetAllPlayerNames(allBowls) ==
  LET own == SelectSeq(allBowls, LAMBDA b : b.team = "yours")
  IN SelectSeq(Uniq([i \in 1..Len(own) |-> own[i].playerId]),
               LAMBDA n : TruthyStr(n) /\ n # "opponent")

\* for (const p of players) { const s = await getPlayerStats(p); ... }: each
\* call returns the memoized object or computes and memoizes one
RECURSIVE CollectStats(_, _)
CollectStats(players, cache) ==
  IF players = <<>> THEN [cache |-> cache, allStats |-> <<>>]
  ELSE LET acc == CollectStats(SubSeq(players, 1, Len(players) - 1), cache)
           key == CacheKey(players[Len(players)], NoFilter)
           s == IF key \in DOMAIN acc.cache THEN <<acc.cache[key]>>
                ELSE ComputeStats(players[Len(players)], NoFilter, bowls, games)
       IN IF s = <<>> THEN acc
          ELSE [cache |-> [k \in DOMAIN acc.cache \cup {key} |->
                             IF k = key THEN s[1] ELSE acc.cache[k]],
                allStats |-> Append(acc.allStats, s[1])]

\* the comparator of the switch on sortBy; no sort for another value
CompareBy(sortBy, a, b) ==
  CASE sortBy = "avgScore" -> b.avgScore - a.avgScore
    [] sortBy = "consistency" -> a.consistency - b.consistency
    [] sortBy = "clutchAvg" -> b.clutchAvg - a.clutchAvg
    [] sortBy = "totalBowls" -> b.totalBowls - a.totalBowls
    [] OTHER -> 0

\* InsertBy moving an element in front of the elements it ties with
RECURSIVE InsertByUnstable(_, _, _)
InsertByUnstable(sortBy, sorted, e) ==
  IF sorted = <<>> THEN <<e>>
  ELSE IF CompareBy(sortBy, sorted[Len(sorted)], e) >= 0
       THEN Append(InsertByUnstable(sortBy, SubSeq(sorted, 1, Len(sorted) - 1), e),
                   sorted[Len(sorted)])
       ELSE Append(sorted, e)

\* Array.prototype.sort with CompareBy: stable insertion, left to right
RECURSIVE InsertBy(_, _, _)
InsertBy(sortBy, sorted, e) ==
  IF sorted = <<>> THEN <<e>>
  ELSE IF CompareBy(sortBy, sorted[Len(sorted)], e) > 0
       THEN Append(InsertBy(sortBy, SubSeq(sorted, 1, Len(sorted) - 1), e),
                   sorted[Len(sorted)])
       ELSE Append(sorted, e)

RECURSIVE SortBy(_, _)
SortBy(sortBy, s) ==
  IF s = <<>> THEN <<>>
  ELSE InsertBy(sortBy, SortBy(sortBy, SubSeq(s, 1, Len(s) - 1)), s[Len(s)])

\* recent - stats.avgScore against 0.3 and -0.3: recent is a quotient, avgScore
\* is in hundredths
DiffAbove(recent, avgScore) == 100 * recent.num - avgScore * recent.den > 30 * recent.den
DiffBelow(recent, avgScore) == 100 * recent.num - avgScore * recent.den < -30 * recent.den

\* gamePerformance[gamePerformance.length - 1]?.avgScore || 0
RecentOf(stats) == stats.gamePerformance[Len(stats.gamePerformance)].avgScore

\* formIndicator of renderPlayerStatsHTML
FormIndicator(stats) ==
  IF Len(stats.gamePerformance) >= 2
  THEN (IF DiffAbove(RecentOf(stats), stats.avgScore) THEN "&#9650; Rising"
        ELSE IF DiffBelow(RecentOf(stats), stats.avgScore) THEN "&#9660; Declining"
        ELSE "&#9654; Steady")
  ELSE "--"

\* formIcon of renderComparisonTable: recentPerf is s.avgScore with fewer than
\* 2 games
FormIcon(s) ==
  LET recentPerf == IF Len(s.gamePerformance) >= 2 THEN RecentOf(s)
                    ELSE [num |-> s.avgScore, den |-> 100]
  IN IF DiffAbove(recentPerf, s.avgScore) THEN "&#9650;"
     ELSE IF DiffBelow(recentPerf, s.avgScore) THEN "&#9660;"
     ELSE "&#9654;"

\* the rows of renderComparisonTable(stats, threshold), threshold 2.5
RenderComparisonTable(stats) ==
  [i \in 1..Len(stats) |->
     [playerName |-> stats[i].playerName,
      isRecommended |-> stats[i].avgScore >= 250,
      formIcon |-> FormIcon(stats[i])]]

\* filterComparison() with the values of the position filter and of the sort
\* selector
FilterComparison(position, sortBy) ==
  LET collected == CollectStats(GetAllPlayerNames(bowls), analyticsCache)
      allStats == SelectSeq(collected.allStats, LAMBDA s :
                    position = "all"
                      \/ \E i \in 1..Len(s.positions) : s.positions[i] = position)
      sorted == SortBy(sortBy, allStats)
  IN /\ statsCall.pc = "idle"
     /\ analyticsCache' = collected.cache
     /\ returned' = [op |-> "filterComparison", position |-> position,
                     sortBy |-> sortBy, allStats |-> sorted,
                     rows |-> RenderComparisonTable(sorted)]
     /\ UNCHANGED <<bowls, games, statsCall, recording, ops>>

\* renderTeamComparison(container): nothing is listed for fewer than 2 players
RenderTeamComparison ==
  LET players == GetAllPlayerNames(bowls)
      collected == CollectStats(players, analyticsCache)
      sorted == SortBy("avgScore", collected.allStats)
  IN /\ statsCall.pc = "idle"
     /\ IF Len(players) < 2
        THEN /\ returned' = [op |-> "renderTeamComparison", listed |-> FALSE]
             /\ UNCHANGED analyticsCache
        ELSE /\ returned' = [op |-> "renderTeamComparison", listed |-> TRUE,
                             allStats |-> sorted,
                             rows |-> RenderComparisonTable(sorted)]
             /\ analyticsCache' = collected.cache
     /\ UNCHANGED <<bowls, games, statsCall, recording, ops>>

\* applyPlayerFilters() with the values of the player and the game selector:
\* the dashboard shows renderPlayerStatsHTML(stats)
ApplyPlayerFilters(playerName, filterGameId) ==
  LET key == CacheKey(playerName, filterGameId)
      stats == IF key \in DOMAIN analyticsCache THEN <<analyticsCache[key]>>
               ELSE ComputeStats(playerName, filterGameId, bowls, games)
  IN /\ statsCall.pc = "idle"
     /\ analyticsCache' =
          IF stats = <<>> THEN analyticsCache
          ELSE [k \in DOMAIN analyticsCache \cup {key} |->
                  IF k = key THEN stats[1] ELSE analyticsCache[k]]
     /\ returned' = [op |-> "applyPlayerFilters", playerName |-> playerName,
                     filterGameId |-> filterGameId, stats |-> stats,
                     formIndicator |-> IF stats = <<>> THEN "No data for this player."
                                       ELSE FormIndicator(stats[1])]
     /\ UNCHANGED <<bowls, games, statsCall, recording, ops>>

\* a bowl record of a participant playing in a position
PositionedBowl(gameId, playerId, position, endNumber, score) ==
  [Bowl(gameId, playerId, "yours", endNumber, score, 50) EXCEPT !.position = position]

\* own bowls of A (Lead), B (Skip) and C (Lead and Skip) in g1 and g2 with
\* scores that give equal and different averages, and a bowl of the opponent
ComparisonInputs ==
  {PositionedBowl("g1", "A", "Lead", 1, 3),
   PositionedBowl("g2", "A", "Lead", 1, 1),
   PositionedBowl("g1", "B", "Skip", 1, 3),
   PositionedBowl("g2", "B", "Skip", 2, 3),
   PositionedBowl("g1", "C", "Lead", 1, 4),
   PositionedBowl("g2", "C", "Skip", 2, 3),
   Bowl("g1", "opponent", "opponent", 1, 4, 50)}

\* g1 before g2, g2 before g1, each of 4 ends
ComparisonGameLogs ==
  {<<Game("g1", 10, 4), Game("g2", 20, 4)>>, <<Game("g1", 20, 4), Game("g2", 10, 4)>>}

ComparisonPositions == {"all", "Lead", "Skip", "Third"}

ComparisonSortKeys == {"avgScore", "consistency", "clutchAvg", "totalBowls"}

ComparisonNext ==
  \/ \E position \in ComparisonPositions, sortBy \in ComparisonSortKeys :
       FilterComparison(position, sortBy)
  \/ RenderTeamComparison
  \/ \E p \in {"A", "B"} : ApplyPlayerFilters(p, NoFilter)

InitComparison == StatsInit(ComparisonInputs, ComparisonGameLogs)

SpecComparison == InitComparison /\ [][ComparisonNext]_vars

ReturnedComparison == returned.op = "filterComparison"

\* the own attempts of a participant over all games, and the first of them
OwnBy(p) == {i \in DOMAIN bowls : bowls[i].playerId = p /\ bowls[i].team = "yours"}
FirstBy(p) == CHOOSE i \in OwnBy(p) : \A j \in OwnBy(p) : i <= j

\* the participants: the names of getAllPlayerNames
Participants ==
  {bowls[i].playerId : i \in {j \in DOMAIN bowls : bowls[j].team = "yours"}}
    \ {"", "opponent"}

\* the value a listed statistics object is ordered by, larger first
SortValue(sortBy, s) ==
  CASE sortBy = "avgScore" -> s.avgScore
    [] sortBy = "consistency" -> 0 - s.consistency
    [] sortBy = "clutchAvg" -> s.clutchAvg
    [] sortBy = "totalBowls" -> s.totalBowls

\* C16: filterComparison lists exactly the participants with statistics whose
\* positions contain the requested position (all of them for "all"), ordered
\* by avgScore descending, consistency ascending, clutchAvg descending or
\* totalBowls descending as the sort key says; participants equal on the key
\* keep the order of getAllPlayerNames.
C16_FilteredAndStablySorted ==
  ReturnedComparison =>
    LET v == returned.allStats
        wanted == {p \in Participants :
                     /\ OwnBy(p) # {}
                     /\ \/ returned.position = "all"
                        \/ \E i \in OwnBy(p) : bowls[i].position = returned.position}
    IN /\ {v[k].playerName : k \in DOMAIN v} = wanted
       /\ Len(v) = Cardinality(wanted)
       /\ \A k \in DOMAIN v :
            v[k] = ComputeStats(v[k].playerName, NoFilter, bowls, games)[1]
       /\ \A k, l \in DOMAIN v :
            k < l =>
              \/ SortValue(returned.sortBy, v[k]) > SortValue(returned.sortBy, v[l])
              \/ /\ SortValue(returned.sortBy, v[k]) = SortValue(returned.sortBy, v[l])
                 /\ FirstBy(v[k].playerName) < FirstBy(v[l].playerName)

\* attempts of B (3), A (3) and C (4), sorted by avgScore: C, then B and A in
\* the order of their first attempts
C16_Witness ==
  /\ ReturnedComparison /\ returned.position = "all" /\ returned.sortBy = "avgScore"
  /\ [i \in DOMAIN bowls |-> bowls[i].playerId] = <<"B", "A", "C">>
  /\ [k \in DOMAIN returned.allStats |-> returned.allStats[k].playerName]
       = <<"C", "B", "A">>
  /\ returned.allStats[2].avgScore = returned.allStats[3].avgScore

\* the position filter leaves out B, who plays Skip only
C16_WitnessPosition ==
  /\ ReturnedComparison /\ returned.position = "Lead"
  /\ "B" \in Participants
  /\ Len(returned.allStats) = 2

ReturnedDashboard == returned.op = "applyPlayerFilters" /\ returned.stats # <<>>

\* the form of a statistics object: d is the mean of the last gamePerformance
\* entry less avgScore (in hundredths: 100 * num / den - avgScore)
Form(st) ==
  IF Len(st.gamePerformance) < 2 THEN "undetermined"
  ELSE LET recent == st.gamePerformance[Len(st.gamePerformance)].avgScore
           \* d * den, in hundredths
           d == 100 * recent.num - st.avgScore * recent.den
       IN IF d > 30 * recent.den THEN "rising"
          ELSE IF d < 0 - 30 * recent.den THEN "declining"
          ELSE "steady"

\* the form that a piece of markup shows
FormShown(html) ==
  CASE html \in {"&#9650; Rising", "&#9650;"} -> "rising"
    [] html \in {"&#9660; Declining", "&#9660;"} -> "declining"
    [] html \in {"&#9654; Steady", "&#9654;"} -> "steady"
    [] html = "--" -> "undetermined"

\* the dashboard shows the form of its statistics object
DashboardShowsForm ==
  ReturnedDashboard => FormShown(returned.formIndicator) = Form(returned.stats[1])

\* the comparison table shows the form of each listed statistics object
TableShowsForm ==
  ReturnedComparison =>
    \A k \in DOMAIN returned.rows :
      FormShown(returned.rows[k].formIcon) = Form(returned.allStats[k])

\* C17: the form indicator is "undetermined" for fewer than 2 matches in
\* gamePerformance, otherwise "rising" for d > 0.3, "declining" for d < -0.3
\* and "steady" else, d being the mean of the most recent match less the
\* overall avgScore; the dashboard and the comparison table show this same
\* indicator.
C17_SameFormInBothViews == DashboardShowsForm /\ TableShowsForm

\* the comparison table shows the form of each listed statistics object of 2
\* matches or more
TableShowsFormOfTwoGames ==
  ReturnedComparison =>
    \A k \in DOMAIN returned.rows :
      Len(returned.allStats[k].gamePerformance) >= 2
        => FormShown(returned.rows[k].formIcon) = Form(returned.allStats[k])

\* the own attempts of the drill-down's game in round e, of the selected
\* participant only when there is one
InRound(e) ==
  {i \in OwnOfGame(returned.gameId) :
     /\ bowls[i].endNumber = e
     /\ returned.selectedPlayer = "all" \/ bowls[i].playerId = returned.selectedPlayer}

\* the annotation of round e of a game
Annotation(g, e) ==
  IF "endNotes" \in DOMAIN g /\ e \in DOMAIN g.endNotes THEN g.endNotes[e] ELSE ""

\* C18: the round progression of a match has exactly totalRounds records, for
\* the rounds 1..totalRounds in ascending order; each holds the total score,
\* the count and the mean (0 for count 0) of the own-team attempts of its round
\* (of the selected participant when there is a filter) and the annotation of
\* the round; a round without attempts has all-zero values.
C18_RoundProgression ==
  ReturnedEndData =>
    LET g == GameOf(returned.gameId)
        v == returned.endData
    IN /\ DOMAIN v = 1..TotalRounds(g)
       /\ \A e \in DOMAIN v :
            /\ v[e].end = e
            /\ v[e].totalScore = SumOver(InRound(e), ValueAt)
            /\ v[e].bowlCount = Cardinality(InRound(e))
            /\ v[e].avgScore.den > 0
            /\ v[e].avgScore.num * Cardinality(InRound(e))
                 = SumOver(InRound(e), ValueAt) * v[e].avgScore.den
            /\ InRound(e) = {}
                 => v[e].totalScore = 0 /\ v[e].bowlCount = 0 /\ v[e].avgScore = Zero
            /\ v[e].notes = Annotation(g, e)

\* g1 filtered to A: round 1 holds A's attempt of score 4 and the note, round 2
\* is all-zero although B has an attempt in it, round 3 is empty
C18_Witness ==
  /\ ReturnedEndData /\ returned.op = "filterDrillDownByPlayer"
  /\ returned.gameId = "g1" /\ returned.selectedPlayer = "A"
  /\ \E i \in OwnOfGame("g1") : bowls[i].playerId = "B" /\ bowls[i].endNumber = 2
  /\ Len(returned.endData) = 3
  /\ returned.endData[1].totalScore = 4 /\ returned.endData[1].notes = "windy"
  /\ returned.endData[2].bowlCount = 0 /\ returned.endData[2].avgScore = Zero
  /\ returned.endData[3].bowlCount = 0

\* g2 records totalEnds 2 and no endCount: 2 records
C18_WitnessLegacy ==
  /\ ReturnedEndData /\ returned.op = "showGameDrillDown" /\ returned.gameId = "g2"
  /\ Len(returned.endData) = 2 /\ returned.endData[1].bowlCount = 1

(***************************************************************************)
(* deleteGame over a store drawn from bounded sets                         *)
(***************************************************************************)

\* deleteGame(id) when a request of the transaction fails: the transaction
\* aborts, the store keeps what it held, and the promise is rejected
DeleteGameFails(id) ==
  /\ ~onboardingActive
  /\ Operation
  /\ \E i \in 1..Len(games) : games[i].id = id
  /\ returned' = [op |-> "deleteGame", id |-> id, rejected |-> TRUE]
  /\ UNCHANGED <<bowls, games, analyticsCache, statsCall, recording>>

\* bowls of the games g1 and g2, of the own and of the opponent side
DeleteInputs ==
  {Bowl("g1", "A", "yours", 1, 4, 50),
   Bowl("g1", "A", "yours", 2, 3, 50),
   Bowl("g1", "opponent", "opponent", 1, 2, 50),
   Bowl("g2", "A", "yours", 1, 4, 50),
   Bowl("g2", "B", "yours", 1, 1, 50)}

DeleteNext ==
  \/ \E i \in 1..Len(games) : DeleteGame(games[i].id)
  \/ \E i \in 1..Len(games) : DeleteGameFails(games[i].id)

InitDelete == StatsInit(DeleteInputs, {TwoGames})

SpecDelete == InitDelete /\ [][DeleteNext]_vars

\* the store after the step holds no game id and no bowl of it, and the other
\* games and bowls as before the step
RemovedWithBowls(id) ==
  /\ \A k \in DOMAIN games' : games'[k].id # id
  /\ \A k \in DOMAIN bowls' : bowls'[k].gameId # id
  /\ games' = SelectSeq(games, LAMBDA g : g.id # id)
  /\ bowls' = SelectSeq(bowls, LAMBDA b : b.gameId # id)

\* C19: when deleteGame(id) completes, the store holds neither the match id
\* nor an attempt whose gameId is id, and the other matches and their attempts
\* are unchanged; when its transaction fails, nothing is removed.
C19_DeleteGameCascades ==
  [][\A id \in {"g1", "g2"} :
       /\ DeleteGame(id) => RemovedWithBowls(id)
       /\ DeleteGameFails(id) => games' = games /\ bowls' = bowls]_vars

\* after one operation g1 and its two attempts are gone and g2 is left with its
\* attempt
C19_Witness ==
  /\ ops = 1
  /\ Len(games) = 1 /\ games[1].id = "g2"
  /\ Len(bowls) = 1 /\ bowls[1].gameId = "g2"

\* a failed deleteGame("g1") has left g1 and its attempts in the store
C19_WitnessFails ==
  /\ returned.op = "deleteGame" /\ returned.id = "g1" /\ returned.rejected
  /\ Len(games) = 2
  /\ \E i \in DOMAIN bowls : bowls[i].gameId = "g1"

(***************************************************************************)
(* The cache key over participant names that contain '_game_'              *)
(***************************************************************************)

\* own bowls of the participants A and A_game_g1 in g1, and of A in g2
CacheInputs ==
  {Bowl("g1", "A", "yours", 1, 4, 50),
   Bowl("g2", "A", "yours", 1, 2, 50),
   Bowl("g1", "A_game_g1", "yours", 1, 1, 50)}

\* the calls: A for g1, A for all games, A_game_g1 for all games
CacheCalls == {<<"A", "g1">>, <<"A", NoFilter>>, <<"A_game_g1", NoFilter>>}

CacheNext ==
  \/ \E c \in CacheCalls : GetPlayerStats(c[1], c[2])
  \/ GetAllBowlsDone
  \/ GetAllGamesDone

InitCache == StatsInit(CacheInputs, {TwoGames})

SpecCache == InitCache /\ [][CacheNext]_vars

\* C20: the cache is keyed by the pair (participant, match or all): a result
\* memoized for (P, M) is returned only by the calls for the same P and the
\* same M, so a call answered from the cache gets the result of its own pair.
C20_CachedResultIsOfSamePair ==
  Returned /\ returned.cached =>
    /\ returned.value[1].playerName = returned.playerName
    /\ returned.value
         = ComputeStats(returned.playerName, returned.filterGameId, bowls, games)


(***************************************************************************)
(* Live recording of one match: the game has been started from the setup   *)
(* screen and some bowls of its first end may have been placed and saved;  *)
(* the handlers of the game screen and the completions of the              *)
(* persistCurrentGame calls run from there.                                *)
(***************************************************************************)

\* selectTeam(team), then a click on the rink that places a bowl
ClickAs(gs, team, distanceInFeet, resultCategory) ==
  LET selected == [gs EXCEPT !.currentTeam = team]
  IN PushBowl(selected,
              FrontEndScored(selected, NewBowl(selected, distanceInFeet,
                                               resultCategory)))

\* gameState after the clicks of script, each <<team, distance, side>>
RECURSIVE Played(_, _)
Played(gs, script) ==
  IF script = <<>> THEN gs
  ELSE Played(ClickAs(gs, script[1][1], script[1][2], script[1][3]), Tail(script))

\* the store 'bowls' after the clicks of script, the persistCurrentGame call
\* of each click having completed before the next click
RECURSIVE PlayedStore(_, _)
PlayedStore(gs, script) ==
  IF script = <<>> THEN <<>>
  ELSE LET clicked == ClickAs(gs, script[1][1], script[1][2], script[1][3])
       IN BowlsWithIds(clicked) \o PlayedStore(clicked, Tail(script))

\* the state after startGame for start.format and start.ends and the clicks
\* of start.script, for some start of starts
InitPlayed(starts) ==
  \E start \in starts :
    LET started == StartedGame(start.format, start.ends, IdNames[1], 100)
    IN /\ gameState = Played(started, start.script)
       /\ games = <<GameToSave(Played(started, start.script))>>
       /\ bowls = PlayedStore(started, start.script)
       /\ analyticsCache = <<>>
       /\ statsCall = Idle
       /\ returned = NoReturn
       /\ pendingBowl = NoBowl
       /\ draggingBowl = NotDragging
       /\ persists = <<>>
       /\ tournaments = <<>>
       /\ settings = {"hasVisited"}
       /\ onboardingActive = FALSE
       /\ nextId = 1
       /\ ops = 0
       /\ Standalone

\* the matches recorded: a singles match and a triples match of two ends,
\* just started
RecordingStarts ==
  {[format |-> "singles", ends |-> 21, script |-> <<>>],
   [format |-> "triples2", ends |-> 2, script |-> <<>>]}

InitRecording == InitPlayed(RecordingStarts)

\* persistCurrentGame calls in flight at a time at most
MaxInFlight == 2

\* a handler of the game screen may run: fewer than MaxInFlight
\* persistCurrentGame calls are in flight
MayRecord == Len(persists) < MaxInFlight

RecordingNext ==
  \/ MayRecord /\ \E in \in CanvasInputs : HandleCanvasClick(in[1], in[2])
  \/ MayRecord /\ ConfirmOffRink
  \/ MayRecord /\ ConfirmOnRink
  \/ MayRecord /\ CloseBowlScoringModal
  \/ MayRecord /\ \E i \in 1..Len(gameState.bowls) : HandleMouseDown(i)
  \/ MayRecord /\ \E in \in CanvasInputs : HandleMouseMove(in[1], in[2])
  \/ MayRecord /\ HandleMouseUp
  \/ MayRecord /\ UndoLastBowl
  \/ MayRecord /\ NextEnd
  \/ MayRecord /\ \E team \in {"yours", "opponent"} : SelectTeam(team)
  \/ MayRecord /\ \E index \in 0..3 : SelectPlayer(index)
  \/ \E i \in 1..Len(persists) : SaveGameDone(i)
  \/ SaveBowlsBatchDone

SpecRecording == InitRecording /\ [][RecordingNext]_vars

(***************************************************************************)
(* The attempts written by live recording                                  *)
(***************************************************************************)

\* the sides of the jack and the distance categories the canvas handlers form
ResultCategories == {"Short", "Jack High", "Past"}

DistanceCategories ==
  {"< 0.5 ft", "0.5 ft - 1 ft", "1 ft - 2 ft", "2 ft - 3 ft", "> 3 ft"}

\* the records of the store 'bowls' that belong to the match being recorded
StoredOfMatch == SelectSeq(bowls, LAMBDA b : b.gameId = gameState.gameId)

\* C21: every attempt created by live recording (a canvas click, a confirmed
\* pending bowl, a bowl re-scored by dragging) and written by
\* persistCurrentGame has a score in 0..4, a round number of at least 1 and
\* exactly one team side, yours or opponent; so has every attempt held in
\* gameState.bowls, and the front-end scoring table has no other value
C21_RecordedAttemptWellFormed ==
  /\ \A i \in 1..Len(bowls) :
       LET b == bowls[i]
       IN b.gameId = gameState.gameId =>
            /\ b.score \in 0..4
            /\ b.scoreValue = b.score
            /\ b.endNumber >= 1
            /\ b.team \in {"yours", "opponent"}
            /\ b.team = "opponent" <=> b.playerId = "opponent"
  /\ \A i \in 1..Len(gameState.bowls) :
       LET b == gameState.bowls[i]
       IN /\ b.scoreValue \in 0..4
          /\ b.end \in 1..gameState.currentEnd
          /\ b.team \in {"yours", "opponent"}
  /\ \A resultCategory \in ResultCategories \cup {"Off Rink"} :
       \A distanceCategory \in DistanceCategories :
         CalculateFrontEndScore(resultCategory, distanceCategory) \in 0..4

\* the store holds an own attempt scored 4 by a click, an attempt confirmed
\* off the rink and an attempt of the opponent
C21_Witness ==
  /\ \E i \in 1..Len(StoredOfMatch) :
       StoredOfMatch[i].team = "yours" /\ StoredOfMatch[i].score = 4
  /\ \E i \in 1..Len(StoredOfMatch) :
       StoredOfMatch[i].direction = "Off Rink" /\ StoredOfMatch[i].score = 0
  /\ \E i \in 1..Len(StoredOfMatch) : StoredOfMatch[i].team = "opponent"

\* the store holds an own attempt that a drag re-scored to 1 in the second end
C21_WitnessDragged ==
  /\ draggingBowl # NotDragging
  /\ \E i \in 1..Len(StoredOfMatch) :
       /\ StoredOfMatch[i].team = "yours"
       /\ StoredOfMatch[i].score = 1
       /\ StoredOfMatch[i].endNumber = 2

(***************************************************************************)
(* CSV export: escapeCSV and toCSV.  A string is the sequence of its       *)
(* characters; a value handed to escapeCSV is null, undefined, a number or *)
(* a string.                                                               *)
(***************************************************************************)

Comma == ","
DoubleQuote == "\""
LineFeed == "\n"

CsvNull == [type |-> "null"]
CsvUndefined == [type |-> "undefined"]
CsvNumber(n) == [type |-> "number", n |-> n]
CsvString(chars) == [type |-> "string", chars |-> chars]

DecimalDigits == <<"0", "1", "2", "3", "4", "5", "6", "7", "8", "9">>

\* String(n) for a natural number n
RECURSIVE StringOfNumber(_)
StringOfNumber(n) ==
  IF n < 10 THEN <<DecimalDigits[n + 1]>>
  ELSE Append(StringOfNumber(n \div 10), DecimalDigits[(n % 10) + 1])

\* String(value) for a value that is neither null nor undefined
StringOf(value) ==
  IF value.type = "number" THEN StringOfNumber(value.n) ELSE value.chars

\* str.replace(/"/g, '""')
RECURSIVE ReplaceQuotes(_)
ReplaceQuotes(str) ==
  IF str = <<>> THEN <<>>
  ELSE (IF Head(str) = DoubleQuote THEN <<DoubleQuote, DoubleQuote>>
        ELSE <<Head(str)>>) \o ReplaceQuotes(Tail(str))

\* escapeCSV without the replace: the string is wrapped as it is
EscapeCSVNotDoubled(value) ==
  IF value.type \in {"null", "undefined"} THEN <<>>
  ELSE LET str == StringOf(value)
       IN IF \E i \in 1..Len(str) : str[i] \in {Comma, DoubleQuote, LineFeed}
          THEN <<DoubleQuote>> \o str \o <<DoubleQuote>>
          ELSE str

\* escapeCSV(value)
EscapeCSV(value) ==
  IF value.type \in {"null", "undefined"} THEN <<>>
  ELSE LET str == StringOf(value)
       IN IF \E i \in 1..Len(str) : str[i] \in {Comma, DoubleQuote, LineFeed}
          THEN <<DoubleQuote>> \o ReplaceQuotes(str) \o <<DoubleQuote>>
          ELSE str

\* parts.join(separator), parts a sequence of strings
RECURSIVE Join(_, _)
Join(parts, separator) ==
  IF parts = <<>> THEN <<>>
  ELSE IF Len(parts) = 1 THEN parts[1]
  ELSE parts[1] \o <<separator>> \o Join(Tail(parts), separator)

\* row.map(escapeCSV).join(',')
CsvLine(row) == Join([i \in 1..Len(row) |-> EscapeCSV(row[i])], Comma)

\* toCSV(headers, rows)
ToCSV(headers, rows) ==
  Join(<<CsvLine(headers)>> \o [i \in 1..Len(rows) |-> CsvLine(rows[i])], LineFeed)

\* a reader of CSV text with standard quoting: records end at a line feed
\* outside quotes, fields at a comma outside quotes; a field that starts with
\* a double quote runs to the next double quote that is not doubled, and a
\* doubled double quote inside it is one double quote
RECURSIVE ReadFrom(_, _, _, _, _, _)
ReadFrom(text, i, at, field, record, records) ==
  IF i > Len(text) THEN Append(records, Append(record, field))
  ELSE LET c == text[i]
       IN IF at = "quoted"
          THEN IF c # DoubleQuote
               THEN ReadFrom(text, i + 1, "quoted", Append(field, c), record, records)
               ELSE IF i < Len(text) /\ text[i + 1] = DoubleQuote
               THEN ReadFrom(text, i + 2, "quoted", Append(field, DoubleQuote),
                             record, records)
               ELSE ReadFrom(text, i + 1, "closed", field, record, records)
          ELSE IF c = Comma
          THEN ReadFrom(text, i + 1, "start", <<>>, Append(record, field), records)
          ELSE IF c = LineFeed
          THEN ReadFrom(text, i + 1, "start", <<>>, <<>>,
                        Append(records, Append(record, field)))
          ELSE IF c = DoubleQuote /\ at = "start"
          THEN ReadFrom(text, i + 1, "quoted", <<>>, record, records)
          ELSE ReadFrom(text, i + 1, IF at = "closed" THEN "closed" ELSE "unquoted",
                        Append(field, c), record, records)

ReadCSV(text) == ReadFrom(text, 1, "start", <<>>, <<>>, <<>>)

\* the characters of the exported values: a letter and the three characters
\* that make escapeCSV quote
CsvChars == {"a", Comma, DoubleQuote, LineFeed}

\* strings of at most 2 characters
CsvStrings ==
  {<<>>} \cup {<<c>> : c \in CsvChars} \cup {<<c, d>> : c, d \in CsvChars}

\* the values of a cell: null, undefined, numbers and strings
CsvValues ==
  {CsvNull, CsvUndefined, CsvNumber(0), CsvNumber(12)}
    \cup {CsvString(chars) : chars \in CsvStrings}

\* the export functions build rows of the width of their headers, always
\* more than one column; a second row is one of a few
CsvRows == {<<v, w>> : v, w \in CsvValues}

CsvSecondRows ==
  {<<CsvNull, CsvUndefined>>, <<CsvString(<<DoubleQuote>>), CsvNumber(12)>>,
   <<CsvString(<<"a", LineFeed>>), CsvString(<<Comma>>)>>}

CsvTables ==
  {<<>>} \cup {<<row>> : row \in CsvRows}
         \cup {<<row, second>> : row \in CsvRows, second \in CsvSecondRows}

CsvHeaders ==
  {<<CsvString(<<"a">>), CsvString(<<"a", "a">>)>>,
   <<CsvString(<<"a", Comma>>), CsvString(<<LineFeed>>)>>}

\* an export function has built headers and rows
Exporting == returned.op = "export"

\* const csv = toCSV(headers, rows)
ExportCSV ==
  /\ Exporting
  /\ returned' = [op |-> "toCSV", headers |-> returned.headers,
                  rows |-> returned.rows,
                  csv |-> ToCSV(returned.headers, returned.rows)]
  /\ UNCHANGED <<bowls, games, analyticsCache, statsCall, recording, ops>>

InitCSV ==
  /\ \E headers \in CsvHeaders, rows \in CsvTables :
       returned = [op |-> "export", headers |-> headers, rows |-> rows]
  /\ bowls = <<>>
  /\ games = <<>>
  /\ analyticsCache = <<>>
  /\ statsCall = Idle
  /\ gameState = InitialGameState
  /\ pendingBowl = NoBowl
  /\ draggingBowl = NotDragging
  /\ persists = <<>>
  /\ tournaments = <<>>
  /\ settings = {}
  /\ onboardingActive = FALSE
  /\ nextId = 0
  /\ ops = 0
  /\ Standalone

SpecCSV == InitCSV /\ [][ExportCSV]_vars

\* the field a reader has to deliver for value: '' for null and undefined,
\* String(value) otherwise
FieldOf(value) ==
  IF value.type \in {"null", "undefined"} THEN <<>> ELSE StringOf(value)

FieldsOf(row) == [i \in 1..Len(row) |-> FieldOf(row[i])]

ExportedCSV == returned.op = "toCSV"

\* C22: escapeCSV renders null and undefined as the empty string, and the
\* text toCSV(headers, rows) returns, read with standard CSV quoting, has one
\* record for the headers and one per row, each with exactly the original
\* field values
C22_CsvReadsBack ==
  ExportedCSV =>
    /\ \A value \in {CsvNull, CsvUndefined} : EscapeCSV(value) = <<>>
    /\ ReadCSV(returned.csv) =
         <<FieldsOf(returned.headers)>>
           \o [i \in 1..Len(returned.rows) |-> FieldsOf(returned.rows[i])]

\* a table is exported that has a null cell and cells with a double quote, a
\* comma and a line feed
C22_Witness ==
  /\ ExportedCSV
  /\ Len(returned.rows) = 2
  /\ returned.rows[1] = <<CsvString(<<DoubleQuote, Comma>>), CsvString(<<LineFeed, "a">>)>>
  /\ returned.rows[2][1] = CsvNull
  /\ returned.csv # <<>>

(***************************************************************************)
(* getPlayerStats calls in flight while the demo data is reloaded: every   *)
(* mutation of the store is followed by invalidateAnalyticsCache           *)
(***************************************************************************)

InvalidationNext ==
  \/ \E score \in DemoScores : HandleLoadDemoData(score, 2)
  \/ \E in \in StatsInputs : GetPlayerStats(in[1], in[2])
  \/ GetAllBowlsDone
  \/ GetAllGamesDone

InitInvalidation ==
  /\ bowls = <<>>
  /\ games = <<>>
  /\ analyticsCache = <<>>
  /\ statsCall = Idle
  /\ returned = NoReturn
  /\ gameState = InitialGameState
  /\ pendingBowl = NoBowl
  /\ draggingBowl = NotDragging
  /\ persists = <<>>
  /\ tournaments = <<>>
  /\ settings = {"hasVisited"}
  /\ onboardingActive = FALSE
  /\ nextId = 0
  /\ ops = 0
  /\ Standalone

SpecInvalidation == InitInvalidation /\ [][InvalidationNext]_vars

\* the statistics of the current store for a getPlayerStats call
FreshStats(playerName, filterGameId) ==
  ComputeStats(playerName, filterGameId, bowls, games)

\* C23: when every store mutation is followed by invalidateAnalyticsCache, a
\* getPlayerStats(P, M) call answered from the cache returns the statistics of
\* the current store, and the cache never holds for (P, M) a result computed
\* from data read before the last mutation: a call suspended between its
\* cache miss and its cache write does not repopulate the cache with it
C23_NoStaleResultAfterInvalidation ==
  /\ Returned /\ returned.cached =>
       returned.value = FreshStats(returned.playerName, returned.filterGameId)
  /\ \A in \in StatsInputs :
       CacheKey(in[1], in[2]) \in DOMAIN analyticsCache =>
         <<analyticsCache[CacheKey(in[1], in[2])]>> = FreshStats(in[1], in[2])

(***************************************************************************)
(* The store after the persistCurrentGame calls have settled               *)
(***************************************************************************)

\* every operation of the run so far was a click that placed an attempt
OnlyPlaced == ops = Len(gameState.bowls)

\* C24: persistCurrentGame is idempotent on the record store: when the
\* persistCurrentGame calls of the recording operations have settled, the
\* store holds exactly one attempt record per element of gameState.bowls for
\* the current match. Stated for the runs in which every operation placed an
\* attempt, so that no record is one of an attempt that was undone.
C24_OneRecordPerAttempt ==
  Quiescent /\ OnlyPlaced => Len(StoredOfMatch) = Len(gameState.bowls)

\* C25: after undoLastBowl and the persistCurrentGame call it triggers have
\* settled, the undone attempt is absent from the record store as it is from
\* gameState.bowls. Stated for the states where every attempt placed has been
\* undone: gameState.bowls is empty, so every record of the match left in the
\* store is one of an undone attempt.
C25_UndoneAttemptNotStored ==
  Quiescent /\ gameState.bowls = <<>> => StoredOfMatch = <<>>

(***************************************************************************)
(* The last bowls of an end: a singles match in whose first end each side  *)
(* has placed 3 of its 4 bowls                                             *)
(***************************************************************************)

FullEndStarts ==
  {[format |-> "singles", ends |-> 21,
    script |-> <<<<"yours", 30, "Short">>, <<"opponent", 150, "Jack High">>,
                 <<"yours", 250, "Past">>, <<"opponent", 30, "Short">>,
                 <<"yours", 80, "Short">>, <<"opponent", 350, "Past">>>>]}

InitFullEnd == InitPlayed(FullEndStarts)

FullEndNext ==
  \/ MayRecord /\ \E in \in CanvasInputs : HandleCanvasClick(in[1], in[2])
  \/ MayRecord /\ ConfirmOffRink
  \/ MayRecord /\ ConfirmOnRink
  \/ MayRecord /\ CloseBowlScoringModal
  \/ MayRecord /\ UndoLastBowl
  \/ MayRecord /\ NextEnd
  \/ MayRecord /\ \E team \in {"yours", "opponent"} : SelectTeam(team)
  \/ \E i \in 1..Len(persists) : SaveGameDone(i)
  \/ SaveBowlsBatchDone

SpecFullEnd == InitFullEnd /\ [][FullEndNext]_vars

\* const maxBowlsPerEnd = gameState.bowlsPerPlayer * gameState.playersPerTeam * 2
MaxBowlsPerEnd(gs) == gs.bowlsPerPlayer * gs.playersPerTeam * 2

\* the attempts of gs recorded in round end
BowlsOfEnd(gs, end) == Len(SelectSeq(gs.bowls, LAMBDA b : b.end = end))

\* C26: in every reachable state of live recording the number of attempts
\* recorded in the current round, and in every round played, never exceeds
\* bowlsPerPlayer * playersPerTeam * 2
C26_EndLimit ==
  \A end \in 1..gameState.currentEnd :
    BowlsOfEnd(gameState, end) <= MaxBowlsPerEnd(gameState)


\* the own attempts of gs in round end by the participant at playerIndex
PlayerBowlsOfEnd(gs, end, playerIndex) ==
  Len(SelectSeq(gs.bowls, LAMBDA b : /\ b.end = end
                                     /\ b.team = "yours"
                                     /\ b.playerIndex = playerIndex))

\* C27: no own-team participant has more than bowlsPerPlayer attempts in any
\* single round: no placement is accepted for a participant who already has
\* bowlsPerPlayer attempts in that round
C27_PlayerLimit ==
  \A end \in 1..gameState.currentEnd :
    \A playerIndex \in 0..(gameState.playersPerTeam - 1) :
      PlayerBowlsOfEnd(gameState, end, playerIndex) <= gameState.bowlsPerPlayer

\* an own attempt has been placed by this step
OwnPlacement ==
  /\ Len(gameState'.bowls) = Len(gameState.bowls) + 1
  /\ gameState'.bowls[Len(gameState'.bowls)].team = "yours"
  /\ gameState.currentTeam = "yours"

\* after an own-team placement, advanceToNextPlayer has selected a participant
\* with fewer than bowlsPerPlayer attempts in the current round whenever there
\* is one
AdvanceSelectsPlayerWithBowlsLeft ==
  [][OwnPlacement /\ (\E playerIndex \in 0..(gameState.playersPerTeam - 1) :
                        PlayerBowlsThisEnd(gameState', playerIndex)
                          < gameState.bowlsPerPlayer)
       => PlayerBowlsThisEnd(gameState', gameState'.currentPlayerIndex)
            < gameState.bowlsPerPlayer]_vars

(***************************************************************************)
(* The service worker: install, and the fetch handler with networkFirst    *)
(* and cacheFirst.  A cache is the set of URLs it holds a response for;    *)
(* the requests are same-origin GET requests.                              *)
(***************************************************************************)

\* the variables of the page
page == <<bowls, games, analyticsCache, statsCall, returned, gameState,
          pendingBowl, draggingBowl, persists, tournaments, settings,
          onboardingActive, nextId, ops, legacy>>

\* const SW_BASE, for a worker at the root of the origin
SwBase == "/"

\* SW_BASE + 'offline.html'
OfflinePage == "/offline.html"

\* const PRECACHE_URLS, scaled down to the start page, the offline page and a
\* style sheet
PrecacheUrls == {SwBase, OfflinePage, "/css/main.css"}

\* the paths requested: the pre-cached ones, a page and an image that are not
\* pre-cached, and a path without extension
RequestPaths == PrecacheUrls \cup {"/help.html", "/img/logo.png", "/stats"}

\* url.pathname.endsWith('.html')
EndsWithHtml(pathname) == pathname \in {OfflinePage, "/help.html"}

\* a same-origin GET request: its path and whether its accept header
\* includes text/html
Requests == [pathname : RequestPaths, acceptsHtml : BOOLEAN]

\* the condition of the fetch handler for networkFirst
IsHtmlRequest(request) ==
  \/ request.acceptsHtml
  \/ request.pathname = SwBase
  \/ EndsWithHtml(request.pathname)

\* caches.match(request) finds a response: in any of the caches
CacheMatches(caches, pathname) == pathname \in caches.static \cup caches.dynamic

\* the outcomes of fetch(request): a response with an ok status, a response
\* with another status, a rejection
NetworkOutcomes == {"ok", "notOk", "failed"}

\* the value the promise passed to event.respondWith resolves to
NetworkResponse(pathname, outcome) ==
  [from |-> "network", pathname |-> pathname, ok |-> outcome = "ok"]

CachedResponse(pathname) == [from |-> "cache", pathname |-> pathname]

\* new Response('Offline', { status: 503 })
OfflineResponse == [from |-> "worker", status |-> 503, body |-> "Offline"]

\* undefined: caches.match found nothing
NoResponse == [from |-> "nothing"]

\* caches.match(url) as the value returned: the response, or undefined
CachesMatch(caches, pathname) ==
  IF CacheMatches(caches, pathname) THEN CachedResponse(pathname) ELSE NoResponse

\* the promise of respondWith has resolved
Responded(request, response, network, cached) ==
  [pc |-> "responded", request |-> request, response |-> response,
   network |-> network, cached |-> cached]

\* the install handler: cache.addAll(PRECACHE_URLS) adds every URL or, when a
\* request fails, none; the failure is caught and logged, so the worker is
\* installed in both cases
Install(precached) ==
  /\ swEvent.pc = "install"
  /\ cacheStorage' = [cacheStorage EXCEPT
                        !.static = IF precached THEN PrecacheUrls ELSE {}]
  /\ swEvent' = NoEvent
  /\ UNCHANGED page

\* the fetch handler for a same-origin GET request: networkFirst(request) up
\* to await fetch(request), or cacheFirst(request) up to await caches.match
FetchEvent(request) ==
  /\ swEvent.pc \in {"none", "responded"}
  /\ swEvent' = [pc |-> IF IsHtmlRequest(request) THEN "networkFirst"
                        ELSE "cacheFirst",
                 request |-> request]
  /\ UNCHANGED <<cacheStorage, page>>

\* networkFirst(request) from the outcome of fetch(request) to its return
NetworkFirst(outcome) ==
  LET request == swEvent.request
      cached == CacheMatches(cacheStorage, request.pathname)
  IN /\ swEvent.pc = "networkFirst"
     /\ IF outcome # "failed"
        THEN /\ cacheStorage' =
                  IF outcome = "ok"
                  THEN [cacheStorage EXCEPT !.dynamic = @ \cup {request.pathname}]
                  ELSE cacheStorage
             /\ swEvent' = Responded(request,
                                     NetworkResponse(request.pathname, outcome),
                                     outcome, cached)
        ELSE /\ UNCHANGED cacheStorage
             /\ swEvent' = Responded(request,
                             IF cached THEN CachedResponse(request.pathname)
                             ELSE IF request.acceptsHtml
                             THEN CachesMatch(cacheStorage, OfflinePage)
                             ELSE OfflineResponse,
                             outcome, cached)
     /\ UNCHANGED page

\* cacheFirst(request) from the result of caches.match(request) to its return
\* or to await fetch(request)
CacheFirst ==
  LET request == swEvent.request
  IN /\ swEvent.pc = "cacheFirst"
     /\ swEvent' = IF CacheMatches(cacheStorage, request.pathname)
                   THEN Responded(request, CachedResponse(request.pathname),
                                  "unused", TRUE)
                   ELSE [pc |-> "cacheFirstFetch", request |-> request]
     /\ UNCHANGED <<cacheStorage, page>>

\* cacheFirst(request) from the outcome of fetch(request) to its return
CacheFirstFetched(outcome) ==
  LET request == swEvent.request
  IN /\ swEvent.pc = "cacheFirstFetch"
     /\ cacheStorage' =
          IF outcome = "ok"
          THEN [cacheStorage EXCEPT !.static = @ \cup {request.pathname}]
          ELSE cacheStorage
     /\ swEvent' = Responded(request,
                             IF outcome = "failed" THEN OfflineResponse
                             ELSE NetworkResponse(request.pathname, outcome),
                             outcome, FALSE)
     /\ UNCHANGED page

WorkerNext ==
  \/ \E precached \in BOOLEAN : Install(precached)
  \/ \E request \in Requests : FetchEvent(request)
  \/ \E outcome \in NetworkOutcomes : NetworkFirst(outcome)
  \/ CacheFirst
  \/ \E outcome \in NetworkOutcomes : CacheFirstFetched(outcome)

\* the worker has been registered and its install event is dispatched
InitWorker ==
  /\ bowls = <<>>
  /\ games = <<>>
  /\ analyticsCache = <<>>
  /\ statsCall = Idle
  /\ returned = NoReturn
  /\ gameState = InitialGameState
  /\ pendingBowl = NoBowl
  /\ draggingBowl = NotDragging
  /\ persists = <<>>
  /\ tournaments = <<>>
  /\ settings = {}
  /\ onboardingActive = TRUE
  /\ nextId = 0
  /\ ops = 0
  /\ localStorage = <<>>
  /\ migration = NoMigration
  /\ cacheStorage = NoCaches
  /\ swEvent = [pc |-> "install"]

SpecWorker == InitWorker /\ [][WorkerNext]_vars

\* the handler has completed for a request
Answered == swEvent.pc = "responded"

\* C28: every same-origin GET request intercepted by the fetch handler is
\* answered with a response, whatever the network and the caches: an HTML
\* request (one that accepts text/html) with the network response when fetch
\* succeeds, else with the cached copy, else with the cached offline page; a
\* request that the handler does not treat as HTML with the cached copy when
\* there is one, without using the network, else with the network response,
\* else with the 503 'Offline' response. The handler never completes without
\* a response, also when the pre-cache of the install failed.
C28_EveryRequestAnswered ==
  Answered =>
    LET request == swEvent.request
        response == swEvent.response
    IN /\ response # NoResponse
       /\ request.acceptsHtml =>
            response = IF swEvent.network # "failed"
                       THEN NetworkResponse(request.pathname, swEvent.network)
                       ELSE IF swEvent.cached
                       THEN CachedResponse(request.pathname)
                       ELSE CachedResponse(OfflinePage)
       /\ ~IsHtmlRequest(request) =>
            /\ response = IF swEvent.cached
                          THEN CachedResponse(request.pathname)
                          ELSE IF swEvent.network # "failed"
                          THEN NetworkResponse(request.pathname, swEvent.network)
                          ELSE OfflineResponse
            /\ swEvent.cached => swEvent.network = "unused"

\* the same holds of every request as long as the offline page is cached
AnsweredAsStatedWhenOfflinePageCached ==
  CacheMatches(cacheStorage, OfflinePage) => C28_EveryRequestAnswered

\* a request for SW_BASE or a path ending in .html whose accept header does
\* not include text/html is answered network first, and with the 503 response
\* when the network fails and no copy is cached
PathOnlyHtmlRequestAnswered ==
  /\ Answered
  /\ IsHtmlRequest(swEvent.request)
  /\ ~swEvent.request.acceptsHtml
  => swEvent.response =
       IF swEvent.network # "failed"
       THEN NetworkResponse(swEvent.request.pathname, swEvent.network)
       ELSE IF swEvent.cached THEN CachedResponse(swEvent.request.pathname)
       ELSE OfflineResponse

(***************************************************************************)
(* migrateFromLocalStorage: the games an earlier version of the app left   *)
(* under a key of localStorage are written to the stores; each await can   *)
(* settle with a storage failure                                           *)
(***************************************************************************)

\* null in a string field
NullStr == "null"

\* game.gameId?.toString() for the game numbers 0 to 9
GameIdToString(gameId) == DecimalDigits[gameId + 1]

\* getPositionFromIndex(format, index)
GetPositionFromIndex(format, index) ==
  LET positions == IF format \in {"singles", "pairs4", "pairs3", "triples3",
                                  "triples2", "fours"}
                   THEN PositionsByFormat(format) ELSE <<"Player">>
  IN IF index \in 0..(Len(positions) - 1) THEN positions[index + 1] ELSE "Player"

\* const gameRecord = {...} for a game of localStorage; id is its gameId as a
\* string, or the id generated when it has none
GameRecord(game, id) ==
  [id |-> id, date |-> 200,
   endCount |-> IF Truthy(game.totalEnds) THEN game.totalEnds ELSE 21,
   totalEnds |-> Undefined, format |-> game.format, completed |-> FALSE,
   tournamentId |-> NullStr]

\* game.bowls.map((bowl, idx) => ({ id: generateId(), gameId: gameRecord.id, ... })):
\* every record gets a new id in every call
BowlRecords(game, id) ==
  [i \in 1..Len(game.bowls) |->
     LET bowl == game.bowls[i]
     IN [gameId |-> id,
         playerId |-> IF TruthyStr(bowl.player) THEN bowl.player ELSE "unknown",
         team |-> bowl.team,
         position |-> GetPositionFromIndex(game.format, bowl.playerIndex),
         endNumber |-> IF Truthy(bowl.end) THEN bowl.end ELSE 1,
         score |-> IF Truthy(bowl.scoreValue) THEN bowl.scoreValue ELSE 0,
         scoreValue |-> Undefined,
         distance |-> IF Truthy(bowl.distanceInFeet) THEN bowl.distanceInFeet ELSE 0,
         distanceInFeet |-> Undefined, hand |-> bowl.hand,
         direction |-> bowl.resultCategory,
         resultCategory |-> bowl.resultCategory]]

\* migrateFromLocalStorage has returned value
MigrationReturns(value) ==
  /\ migration' = NoMigration
  /\ returned' = [op |-> "migrateFromLocalStorage", value |-> value]

\* the call goes on after game i of the key: to the next game, or past the
\* loops to await saveSetting('migrationCompleted', true)
MigrationContinues(i) ==
  IF i < Len(localStorage)
  THEN [pc |-> "saveGame", i |-> i + 1, migrates |-> TRUE]
  ELSE [pc |-> "saveSetting", i |-> 0, migrates |-> TRUE]

\* the call leaves the loop over the games of a key: nothing to migrate under
\* it, or an await in the loop was rejected, which the inner catch swallows
MigrationSkipsKey == [pc |-> "saveSetting", i |-> 0, migrates |-> TRUE]

\* migrateFromLocalStorage() up to await getSetting('migrationCompleted')
MigrateFromLocalStorage ==
  /\ migration = NoMigration
  /\ Operation
  /\ migration' = [pc |-> "getSetting", i |-> 0, migrates |-> FALSE]
  /\ returned' = NoReturn
  /\ UNCHANGED <<bowls, games, analyticsCache, statsCall, gameState, pendingBowl,
                 draggingBowl, persists, tournaments, settings, onboardingActive,
                 nextId, worker, localStorage>>

\* await getSetting('migrationCompleted') settles: a rejection is caught by
\* the outer catch; a true setting ends the call; an empty localStorage goes
\* to saveSetting and returns false; game data is recognized by the gameId of
\* the first element
GetSettingSettles(ok) ==
  /\ migration.pc = "getSetting"
  /\ IF ~ok \/ "migrationCompleted" \in settings
     THEN MigrationReturns(FALSE)
     ELSE /\ migration' =
               IF localStorage = <<>>
               THEN [pc |-> "saveSetting", i |-> 0, migrates |-> FALSE]
               ELSE IF localStorage[1].gameId = Undefined
               THEN MigrationSkipsKey
               ELSE [pc |-> "saveGame", i |-> 1, migrates |-> TRUE]
          /\ returned' = NoReturn
  /\ UNCHANGED <<bowls, games, analyticsCache, statsCall, gameState, pendingBowl,
                 draggingBowl, persists, tournaments, settings, onboardingActive,
                 nextId, ops, worker, localStorage>>

\* the id of the record of game i of localStorage
GameRecordId(i) ==
  IF localStorage[i].gameId # Undefined
  THEN GameIdToString(localStorage[i].gameId)
  ELSE IdNames[nextId + 1]

\* await saveGame(gameRecord) settles for game i
MigratedGameSettles(ok) ==
  LET i == migration.i
      game == localStorage[i]
      id == GameRecordId(i)
  IN /\ migration.pc = "saveGame"
     /\ nextId' = IF game.gameId # Undefined THEN nextId ELSE nextId + 1
     /\ games' = IF ok THEN Put(games, GameRecord(game, id)) ELSE games
     /\ migration' =
          IF ~ok THEN MigrationSkipsKey
          ELSE IF Len(game.bowls) > 0
          THEN [pc |-> "saveBowlsBatch", i |-> i, migrates |-> TRUE, id |-> id]
          ELSE MigrationContinues(i)
     /\ returned' = NoReturn
     /\ UNCHANGED <<bowls, analyticsCache, statsCall, gameState, pendingBowl,
                    draggingBowl, persists, tournaments, settings,
                    onboardingActive, ops, worker, localStorage>>

\* await saveBowlsBatch(bowlRecords) settles for game i: the transaction puts
\* every record, or is aborted
MigratedBowlsSettle(ok) ==
  LET i == migration.i
  IN /\ migration.pc = "saveBowlsBatch"
     /\ bowls' = IF ok THEN bowls \o BowlRecords(localStorage[i], migration.id)
                 ELSE bowls
     /\ migration' = IF ok THEN MigrationContinues(i) ELSE MigrationSkipsKey
     /\ returned' = NoReturn
     /\ UNCHANGED <<games, analyticsCache, statsCall, gameState, pendingBowl,
                    draggingBowl, persists, tournaments, settings,
                    onboardingActive, nextId, ops, worker, localStorage>>

\* await saveSetting('migrationCompleted', true) settles: a rejection is
\* caught by the outer catch and the setting is not stored
SaveSettingSettles(ok) ==
  /\ migration.pc = "saveSetting"
  /\ settings' = IF ok THEN settings \cup {"migrationCompleted"} ELSE settings
  /\ MigrationReturns(ok /\ migration.migrates)
  /\ UNCHANGED <<bowls, games, analyticsCache, statsCall, gameState, pendingBowl,
                 draggingBowl, persists, tournaments, onboardingActive, nextId,
                 ops, worker, localStorage>>

MigrationNext ==
  \/ MigrateFromLocalStorage
  \/ \E ok \in BOOLEAN : GetSettingSettles(ok)
  \/ \E ok \in BOOLEAN : MigratedGameSettles(ok)
  \/ \E ok \in BOOLEAN : MigratedBowlsSettle(ok)
  \/ \E ok \in BOOLEAN : SaveSettingSettles(ok)

\* a bowl of a game in localStorage
LegacyBowl(player, end, scoreValue) ==
  [player |-> player, team |-> "yours", playerIndex |-> 0, end |-> end,
   scoreValue |-> scoreValue, distanceInFeet |-> 150, hand |-> "forehand",
   resultCategory |-> "Short"]

\* a game in localStorage
StoredGame(gameId, bowlsOfGame) ==
  [gameId |-> gameId, format |-> "singles", totalEnds |-> 21,
   bowls |-> bowlsOfGame]

\* what localStorage holds: nothing; one game with two bowls; a game with a
\* bowl and a game without bowls
LegacyData ==
  {<<>>,
   <<StoredGame(1, <<LegacyBowl("A", 1, 3), LegacyBowl("A", 2, Undefined)>>)>>,
   <<StoredGame(0, <<LegacyBowl("A", 1, 4)>>), StoredGame(2, <<>>)>>}

InitMigration ==
  /\ localStorage \in LegacyData
  /\ migration = NoMigration
  /\ bowls = <<>>
  /\ games = <<>>
  /\ analyticsCache = <<>>
  /\ statsCall = Idle
  /\ returned = NoReturn
  /\ gameState = InitialGameState
  /\ pendingBowl = NoBowl
  /\ draggingBowl = NotDragging
  /\ persists = <<>>
  /\ tournaments = <<>>
  /\ settings = {}
  /\ onboardingActive = FALSE
  /\ nextId = 0
  /\ ops = 0
  /\ cacheStorage = NoCaches
  /\ swEvent = NoEvent

SpecMigration == InitMigration /\ [][MigrationNext]_vars

\* the records of the store 'games' for game i of localStorage
StoredGamesOf(i) ==
  SelectSeq(games, LAMBDA g : g.id = GameIdToString(localStorage[i].gameId))

\* the records of the store 'bowls' for game i of localStorage
StoredBowlsOf(i) ==
  SelectSeq(bowls, LAMBDA b : b.gameId = GameIdToString(localStorage[i].gameId))

\* C29: after any sequence of migrateFromLocalStorage calls, including calls
\* interrupted by a storage failure, the store contains each legacy match and
\* each legacy attempt at most once
C29_MigratedAtMostOnce ==
  \A i \in 1..Len(localStorage) :
    /\ Len(StoredGamesOf(i)) <= 1
    /\ Len(StoredBowlsOf(i)) <= Len(localStorage[i].bowls)

\* each legacy match is in the store at most once
LegacyGameAtMostOnce ==
  \A i \in 1..Len(localStorage) : Len(StoredGamesOf(i)) <= 1

\* once migrationCompleted = true is stored, a call returns false and no step
\* writes a match or an attempt
CompletedMigrationWritesNothing ==
  [][("migrationCompleted" \in settings) =>
       /\ games' = games
       /\ bowls' = bowls
       /\ returned'.op = "migrateFromLocalStorage" => returned'.value = FALSE]_vars

\* a call returns false after the setting has been stored by an earlier call
MigrationSkipped ==
  /\ "migrationCompleted" \in settings
  /\ returned.op = "migrateFromLocalStorage"
  /\ returned.value = FALSE
  /\ bowls # <<>>

(***************************************************************************)
(* The rounds of a live match                                              *)
(***************************************************************************)

\* 1 <= currentEnd <= totalEnds
EndInRange(gs) == 1 <= gs.currentEnd /\ gs.currentEnd <= gs.totalEnds

C30_WitnessLastEnd ==
  /\ gameState.currentEnd = gameState.totalEnds
  /\ ops = 2
  /\ gameState.bowls = <<>>
  /\ gameState.currentTeam = "yours"
  /\ gameState.currentPlayerIndex = 0
  /\ pendingBowl = NoBowl
  /\ draggingBowl = NotDragging

====
